---- MODULE Spec2Model ----
(***************************************************************************)
(* A model of the AutoPatch pipeline: run_pipeline (agents/orchestrator.py) *)
(* and the working-copy operations it drives (core/git_utils.py), with the  *)
(* host publisher (agents/publish_agent.py) and the artifact store          *)
(* (core/artifacts.py) as far as the orchestrator uses them.                *)
(*                                                                          *)
(* Strings that the code inspects character by character (repository URLs)  *)
(* are sequences of one-character strings; the credential that clone/push   *)
(* embed in a URL is the single element TokenUserinfo.                      *)
(***************************************************************************)
EXTENDS Integers, Sequences, FiniteSets, TLC

VARIABLES
    args,       \* the arguments of the current run_pipeline call
    pc,         \* position of run_pipeline
    events,     \* the events handed to progress_callback, in emission order
    result,     \* the dict run_pipeline returned (NoResult before it returns)
    raised,     \* the exception run_pipeline propagated to its caller (NoExc if none)
    loc,        \* run_pipeline's local variables
    wc,         \* the working copy at TEMP_REPOS_DIR/<repo_name>
    gitLog,     \* every git command issued on the working copy, in order
    cbp,        \* the frame of create_branch_and_push
    host,       \* the state of the source-control host
    hostLog,    \* every host API call made, in order
    store       \* ARTIFACT_STORE

vars == <<args, pc, events, result, raised, loc, wc, gitLog, cbp, host, hostLog, store>>

----------------------------------------------------------------------------
(* Python string operations on sequences of characters *)

RECURSIVE RStrip(_, _)
RStrip(s, c) ==
    IF s # <<>> /\ s[Len(s)] = c THEN RStrip(SubSeq(s, 1, Len(s) - 1), c) ELSE s

StartsWith(s, p) == Len(s) >= Len(p) /\ SubSeq(s, 1, Len(p)) = p

EndsWith(s, p) == Len(s) >= Len(p) /\ SubSeq(s, Len(s) - Len(p) + 1, Len(s)) = p

\* str.replace(old, new): left to right, non-overlapping, one pass
RECURSIVE Replace(_, _, _)
Replace(s, old, new) ==
    IF Len(s) < Len(old) THEN s
    ELSE IF StartsWith(s, old)
         THEN new \o Replace(SubSeq(s, Len(old) + 1, Len(s)), old, new)
         ELSE <<s[1]>> \o Replace(Tail(s), old, new)

\* s.split(c)[-1]
RECURSIVE LastSegment(_, _)
LastSegment(s, c) ==
    IF \E i \in 1..Len(s) : s[i] = c
    THEN LastSegment(Tail(s), c)
    ELSE s

DotGit == <<".", "g", "i", "t">>
Http == <<"h", "t", "t", "p">>

\* (url or "").rstrip("/").replace(".git", "")
Normalize(url) == Replace(RStrip(url, "/"), DotGit, <<>>)

\* repo_url.rstrip("/").split("/")[-1].replace(".git", "")
RepoName(url) == Replace(LastSegment(RStrip(url, "/"), "/"), DotGit, <<>>)

\* the URL clone_repo records as origin
CleanUrl(url) == Normalize(url) \o (IF EndsWith(url, DotGit) THEN DotGit ELSE <<>>)

\* "x-access-token:<token>@", the userinfo a token-authenticated URL carries
TokenUserinfo == "x-access-token:TOKEN@"

\* urlparse(url)._replace(netloc = "x-access-token:<token>@host[:port]"), unparsed
AuthedUrl(url) ==
    LET i == CHOOSE k \in 1..Len(url) :
                 /\ k + 1 <= Len(url) /\ url[k] = "/" /\ url[k + 1] = "/"
                 /\ \A j \in 1..(k - 1) : ~(url[j] = "/" /\ url[j + 1] = "/")
    IN  SubSeq(url, 1, i + 1) \o <<TokenUserinfo>> \o SubSeq(url, i + 2, Len(url))


----------------------------------------------------------------------------
(* Repository URLs a caller may pass *)

UrlBase == Http \o <<":", "/", "/", "h", "/", "o", "/", "r">>
UrlGit == UrlBase \o DotGit
UrlOther == Http \o <<":", "/", "/", "h", "/", "p", "/", "r">>
UrlPages == UrlBase \o <<".", "g", "i", "t", "h", "u", "b">>
UrlSsh == <<"g", "@", "h", ":", "o", "/", "r">> \o DotGit
UrlHub == UrlBase \o <<"h", "u", "b">>

----------------------------------------------------------------------------
(* Values *)

NoExc == [type |-> "none", msg |-> "none"]
NoResult == [status |-> "none"]
NoUrl == <<>>

Exc(t, m) == [type |-> t, msg |-> m]

\* the branch run_pipeline creates, auto-style-fixes-<timestamp>, and the one an
\* earlier run (an earlier timestamp) left in a reused working copy
NewBranch == "auto-style-fixes-now"
OldBranch == "auto-style-fixes-earlier"

\* agents/analysis_agent.py run_bandit_on_path: the text returned when Bandit
\* is missing or exits with an error and no findings
BanditFailed == "Bandit run failed"

\* the texts of a failed git command that the code tells apart
FailTexts == {"conflict", "denied", "other"}

NoWc == [exists |-> FALSE, origin |-> NoUrl, head |-> "none", heads |-> {},
         dirty |-> {}, untracked |-> {}, index |-> {}, stash |-> <<>>,
         commits |-> <<>>]

IdleCbp == [pc |-> "idle", new_branch |-> "none", token |-> FALSE, files |-> {},
            msg |-> "none", expected |-> NoUrl, stash_created |-> FALSE,
            pushed |-> FALSE, orig_url |-> NoUrl, exc |-> NoExc, ret |-> "none"]

\* one issued git command: what, on which recorded origin, whether it succeeded,
\* and the kind of text its failure carried where the code looks at it
Git(op, ok) == [op |-> op, url |-> wc.origin, ok |-> ok, text |-> "none"]

\* a command that failed with the given text
GitFailed(op, text) == [Git(op, FALSE) EXCEPT !.text = text]

\* one request sent to the host, and whether it was answered with success
Req(op, arg, ok) == [op |-> op, arg |-> arg, ok |-> ok]

\* The model follows the runs in which at most MaxFailures operations on the
\* working copy or stages fail (git commands, the security scan, the code
\* generation) and at most MaxHostFailures requests to the host fail
MaxFailures == 2
MaxHostFailures == 1

Failed(log) == Cardinality({i \in 1..Len(log) : ~log[i].ok})

Failures ==
    Failed(gitLog)
    + Cardinality({i \in 1..Len(events) :
                      \/ events[i].kind = "error" /\ events[i].stage \in {"security", "fix"}
                      \/ events[i].stage = "security" /\ events[i].info = BanditFailed})

Bounded == Failures <= MaxFailures /\ Failed(hostLog) <= MaxHostFailures

----------------------------------------------------------------------------
(* core/git_utils.py: create_branch_and_push *)

CbpRaise(e) == [cbp EXCEPT !.pc = "raised", !.exc = e]

\* a check that lets every origin through
AnyOriginMatches(actual, expected) == TRUE

\* actual_origin != expected_norm is false
OriginMatches(actual, expected) == Normalize(actual) = Normalize(expected)

\* lines 73-82: the safety check on expected_origin
CbpCheckOrigin ==
    /\ cbp.pc = "check"
    /\ IF cbp.expected # NoUrl /\ ~OriginMatches(wc.origin, cbp.expected)
       THEN cbp' = CbpRaise(Exc("RuntimeError", "safety check failed"))
       ELSE cbp' = [cbp EXCEPT !.pc = "checkout"]
    /\ UNCHANGED <<args, pc, events, result, raised, loc, wc, gitLog, host, hostLog, store>>

\* the texts of a failed checkout the code tells apart: git refuses because
\* untracked files, or local changes to tracked files, would be overwritten
CheckoutTexts == {"untracked files would be overwritten",
                  "local changes would be overwritten"}

\* line 97: "would be overwritten" in err_text or "untracked working tree
\* files" in err_text
StashesOn(text) == text \in CheckoutTexts

\* lines 98-124: what git stash push -u puts away: the untracked files parsed
\* from the message, or, if none was parsed, every change of the working copy
StashEntry(w, parsed) ==
    IF parsed # {} THEN [dirty |-> {}, untracked |-> parsed]
    ELSE [dirty |-> w.dirty, untracked |-> w.untracked]

\* lines 86-140: checkout or create the branch; stash what is in the way
CbpCheckout ==
    /\ cbp.pc = "checkout"
    /\ LET nb == cbp.new_branch
           known == nb \in wc.heads
           first == Git(IF known THEN "checkout" ELSE "checkout -b", FALSE)
           onBranch(w) == [w EXCEPT !.head = nb, !.heads = @ \cup {nb}]
           failed == Exc("RuntimeError", "failed to create or checkout branch")
       IN
       \/ \* the checkout succeeds
          /\ wc' = onBranch(wc)
          /\ gitLog' = Append(gitLog, [first EXCEPT !.ok = TRUE])
          /\ cbp' = [cbp EXCEPT !.pc = "stage"]
       \/ \* git refuses to overwrite files of the working copy: the untracked
          \* files the branch holds too (their names are in the message), or
          \* local changes to tracked files (no file list the code parses)
          /\ known
          /\ \E text \in CheckoutTexts, parsed \in SUBSET wc.untracked,
                stashOk \in BOOLEAN, retryOk \in BOOLEAN :
                LET refused == [first EXCEPT !.text = text]
                    entry == StashEntry(wc, parsed)
                    stashed == [wc EXCEPT !.stash = Append(@, entry),
                                          !.dirty = @ \ entry.dirty,
                                          !.untracked = @ \ entry.untracked]
                IN
                /\ IF text = "untracked files would be overwritten"
                   THEN parsed # {}
                   ELSE parsed = {} /\ wc.dirty # {}
                /\ StashesOn(text)
                /\ IF ~stashOk
                   THEN /\ ~retryOk
                        /\ wc' = wc
                        /\ gitLog' = gitLog \o <<refused, Git("stash push", FALSE)>>
                        /\ cbp' = CbpRaise(failed)
                   ELSE IF ~retryOk
                   THEN /\ wc' = stashed
                        /\ gitLog' = gitLog \o <<refused, Git("stash push", TRUE),
                                                 Git("checkout", FALSE)>>
                        /\ cbp' = [CbpRaise(failed) EXCEPT !.stash_created = TRUE]
                   ELSE /\ wc' = onBranch(stashed)
                        /\ gitLog' = gitLog \o <<refused, Git("stash push", TRUE),
                                                 Git("checkout", TRUE)>>
                        /\ cbp' = [cbp EXCEPT !.pc = "stage", !.stash_created = TRUE]
       \/ \* any other failure: create_head and checkout as a last resort
          /\ \E headOk \in BOOLEAN :
                IF headOk
                THEN /\ wc' = onBranch(wc)
                     /\ gitLog' = gitLog \o <<first, Git("create_head", TRUE)>>
                     /\ cbp' = [cbp EXCEPT !.pc = "stage"]
                ELSE /\ wc' = wc
                     /\ gitLog' = gitLog \o <<first, Git("create_head", FALSE)>>
                     /\ cbp' = CbpRaise(failed)
    /\ UNCHANGED <<args, pc, events, result, raised, loc, host, hostLog, store>>
    /\ Bounded'

\* lines 144-149: what gets staged
Staged(w, files) ==
    IF files # {} THEN w.index \cup (files \cap (w.dirty \cup w.untracked))
    ELSE w.index \cup w.dirty \cup w.untracked

\* a stage-and-commit step that refuses to commit when nothing is staged
CbpStageCommitNoEmpty ==
    /\ cbp.pc = "stage"
    /\ LET staged == Staged(wc, cbp.files)
           addOp == Git(IF cbp.files # {} THEN "add" ELSE "add -A", TRUE)
       IN
       IF staged = {}
       THEN /\ wc' = wc
            /\ gitLog' = Append(gitLog, addOp)
            /\ cbp' = CbpRaise(Exc("RuntimeError", "commit failed"))
       ELSE /\ wc' = [wc EXCEPT !.index = {}, !.dirty = @ \ staged, !.untracked = @ \ staged,
                                !.commits = Append(@, [branch |-> wc.head, files |-> staged,
                                                       msg |-> cbp.msg])]
            /\ gitLog' = gitLog \o <<addOp, Git("commit", TRUE)>>
            /\ cbp' = [cbp EXCEPT !.pc = "push"]
    /\ UNCHANGED <<args, pc, events, result, raised, loc, host, hostLog, store>>

\* lines 142-183: stage and commit
CbpStageCommit ==
    /\ cbp.pc = "stage"
    /\ LET staged == Staged(wc, cbp.files)
           addOp == Git(IF cbp.files # {} THEN "add" ELSE "add -A", TRUE)
           added == [wc EXCEPT !.index = staged,
                               !.dirty = @ \ staged, !.untracked = @ \ staged]
           committed == [added EXCEPT !.index = {},
                            !.commits = Append(@, [branch |-> wc.head, files |-> staged,
                                                   msg |-> cbp.msg])]
       IN
       \/ \* git add raises: re-raised by the outer handler
          /\ wc' = wc
          /\ gitLog' = Append(gitLog, [addOp EXCEPT !.ok = FALSE])
          /\ cbp' = CbpRaise(Exc("GitCommandError", "add failed"))
       \/ \* repo.index.commit succeeds
          /\ wc' = committed
          /\ gitLog' = gitLog \o <<addOp, Git("commit", TRUE)>>
          /\ cbp' = [cbp EXCEPT !.pc = "push"]
       \/ \* "nothing to commit": an empty commit is tried, its failure only printed
          /\ staged = {}
          /\ \E emptyOk \in BOOLEAN :
                /\ wc' = IF emptyOk THEN committed ELSE added
                /\ gitLog' = gitLog \o <<addOp, Git("commit", FALSE),
                                         Git("commit --allow-empty", emptyOk)>>
                /\ cbp' = [cbp EXCEPT !.pc = "push"]
       \/ \* another GitCommandError: set the fallback identity and retry once
          /\ \E retryOk \in BOOLEAN :
                /\ wc' = IF retryOk THEN committed ELSE added
                /\ gitLog' = gitLog \o <<addOp, Git("commit", FALSE), Git("commit", retryOk)>>
                /\ cbp' = IF retryOk THEN [cbp EXCEPT !.pc = "push"]
                          ELSE CbpRaise(Exc("RuntimeError", "commit failed"))
    /\ UNCHANGED <<args, pc, events, result, raised, loc, host, hostLog, store>>
    /\ Bounded'

\* a push that reached the remote: the branch now exists in the repository the
\* recorded origin points to
PushTo(h, url, branch) == [h EXCEPT !.branches = @ \cup {<<Normalize(url), branch>>}]

\* a retry choice that ignores whether a token was given
UsesTokenRetryAlways(token, url) == url # NoUrl /\ StartsWith(url, Http)

\* line 199: github_token and origin.url and origin.url.startswith("http")
UsesTokenRetry(token, url) == token /\ url # NoUrl /\ StartsWith(url, Http)

\* the remote already holds a branch of this name, which may have diverged
RemoteHolds(h, url, branch) == <<Normalize(url), branch>> \in h.branches

\* lines 185-197: the first push attempt. origin.push (GitPython Remote.push)
\* raises when git gave no per-ref result, e.g. on an authentication failure;
\* a ref the remote rejected is reported in the returned PushInfo only, which
\* line 193 drops, so line 194 sets pushed
CbpPush ==
    /\ cbp.pc = "push"
    /\ \/ /\ gitLog' = Append(gitLog, Git("push", TRUE))
          /\ host' = PushTo(host, wc.origin, cbp.new_branch)
          /\ cbp' = [cbp EXCEPT !.pc = "finish", !.pushed = TRUE]
       \/ \* the remote rejects the ref (non-fast-forward): nothing is raised
          /\ RemoteHolds(host, wc.origin, cbp.new_branch)
          /\ gitLog' = Append(gitLog, GitFailed("push", "rejected"))
          /\ host' = host
          /\ cbp' = [cbp EXCEPT !.pc = "finish", !.pushed = TRUE]
       \/ \* any GitCommandError, whatever its text
          /\ gitLog' = Append(gitLog, Git("push", FALSE))
          /\ host' = host
          /\ cbp' = [cbp EXCEPT !.pc = IF UsesTokenRetry(cbp.token, wc.origin)
                                       THEN "auth_seturl" ELSE "pull"]
    /\ UNCHANGED <<args, pc, events, result, raised, loc, wc, hostLog, store>>
    /\ Bounded'

\* lines 201-209: remember the URL, embed the token in the recorded origin; a
\* failing set_url is handled like a failing authenticated push (lines 213-224)
CbpAuthSetUrl ==
    /\ cbp.pc = "auth_seturl"
    /\ \/ /\ wc' = [wc EXCEPT !.origin = AuthedUrl(wc.origin)]
          /\ gitLog' = Append(gitLog, Git("set_url authed", TRUE))
          /\ cbp' = [cbp EXCEPT !.pc = "auth_push", !.orig_url = wc.origin]
       \/ \E restoreOk \in BOOLEAN :
          /\ wc' = wc
          /\ gitLog' = gitLog \o <<Git("set_url authed", FALSE), Git("set_url orig", restoreOk)>>
          /\ cbp' = [CbpRaise(Exc("RuntimeError", "push with token failed"))
                        EXCEPT !.orig_url = wc.origin]
    /\ UNCHANGED <<args, pc, events, result, raised, loc, host, hostLog, store>>
    /\ Bounded'

\* lines 213-219: the error a failed authenticated push is turned into
AuthPushError(text) ==
    IF text = "denied" THEN Exc("RuntimeError", "token has no permission to push")
    ELSE Exc("RuntimeError", "push with token failed")

\* lines 210-224: the authenticated push, then the finally block restoring the URL
CbpAuthPush ==
    /\ cbp.pc = "auth_push"
    /\ \E restoreOk \in BOOLEAN :
          LET restored == IF restoreOk THEN [wc EXCEPT !.origin = cbp.orig_url] ELSE wc
              restoreOp == Git("set_url orig", restoreOk)
          IN
          \/ /\ gitLog' = gitLog \o <<Git("push", TRUE), restoreOp>>
             /\ host' = PushTo(host, cbp.orig_url, cbp.new_branch)
             /\ wc' = restored
             /\ cbp' = [cbp EXCEPT !.pc = "finish", !.pushed = TRUE]
          \/ \E text \in FailTexts :
             /\ gitLog' = gitLog \o <<GitFailed("push", text), restoreOp>>
             /\ host' = host
             /\ wc' = restored
             /\ cbp' = CbpRaise(AuthPushError(text))
    /\ UNCHANGED <<args, pc, events, result, raised, loc, hostLog, store>>
    /\ Bounded'

\* lines 235-240: the error a failed pull or a failed second push is turned into
FinalPushError(text) ==
    IF text = "conflict"
    THEN Exc("MergeConflictError", "Merge conflicts detected while pulling remote.")
    ELSE Exc("RuntimeError", "push failed")

\* lines 226-229: no token or no HTTP remote: pull first
CbpPull ==
    /\ cbp.pc = "pull"
    /\ \/ /\ gitLog' = Append(gitLog, Git("pull", TRUE))
          /\ cbp' = [cbp EXCEPT !.pc = "push2"]
       \/ \E text \in FailTexts :
          /\ gitLog' = Append(gitLog, GitFailed("pull", text))
          /\ cbp' = CbpRaise(FinalPushError(text))
    /\ UNCHANGED <<args, pc, events, result, raised, loc, wc, host, hostLog, store>>
    /\ Bounded'

\* lines 230-240: the push after the pull
CbpPushAfterPull ==
    /\ cbp.pc = "push2"
    /\ \/ /\ gitLog' = Append(gitLog, Git("push", TRUE))
          /\ host' = PushTo(host, wc.origin, cbp.new_branch)
          /\ cbp' = [cbp EXCEPT !.pc = "finish", !.pushed = TRUE]
       \/ \* the remote rejects the ref: origin.push raises nothing (as in line 193)
          /\ RemoteHolds(host, wc.origin, cbp.new_branch)
          /\ gitLog' = Append(gitLog, GitFailed("push", "rejected"))
          /\ host' = host
          /\ cbp' = [cbp EXCEPT !.pc = "finish", !.pushed = TRUE]
       \/ \E text \in FailTexts :
          /\ gitLog' = Append(gitLog, GitFailed("push", text))
          /\ host' = host
          /\ cbp' = CbpRaise(FinalPushError(text))
    /\ UNCHANGED <<args, pc, events, result, raised, loc, wc, hostLog, store>>
    /\ Bounded'

\* lines 242-255: pop the stash if one was made, return the branch name
CbpFinish ==
    /\ cbp.pc = "finish"
    /\ IF ~cbp.pushed
       THEN /\ cbp' = CbpRaise(Exc("RuntimeError", "all push attempts failed"))
            /\ UNCHANGED <<wc, gitLog>>
       ELSE IF cbp.stash_created
       THEN \E popOk \in BOOLEAN :
            /\ gitLog' = Append(gitLog, Git("stash pop", popOk))
            /\ wc' = IF popOk /\ wc.stash # <<>>
                     THEN [wc EXCEPT !.stash = SubSeq(@, 1, Len(@) - 1),
                                     !.dirty = @ \cup wc.stash[Len(wc.stash)].dirty,
                                     !.untracked = @ \cup wc.stash[Len(wc.stash)].untracked]
                     ELSE wc
            /\ cbp' = [cbp EXCEPT !.pc = "returned", !.ret = cbp.new_branch]
       ELSE /\ cbp' = [cbp EXCEPT !.pc = "returned", !.ret = cbp.new_branch]
            /\ UNCHANGED <<wc, gitLog>>
    /\ UNCHANGED <<args, pc, events, result, raised, loc, host, hostLog, store>>
    /\ Bounded'

CbpStep ==
    \/ CbpCheckOrigin
    \/ CbpCheckout
    \/ CbpStageCommit
    \/ CbpPush
    \/ CbpAuthSetUrl
    \/ CbpAuthPush
    \/ CbpPull
    \/ CbpPushAfterPull
    \/ CbpFinish

----------------------------------------------------------------------------
(* create_branch_and_push called on its own, on any working copy *)

PushUrls == {UrlGit, UrlOther, UrlPages, UrlSsh, UrlHub}
PushFiles == {"a.py", "b.py"}

NoHost == [branches |-> {}, prs |-> <<>>, issues |-> 0, comments |-> 0]
NoArgs == [repo_url |-> NoUrl]
NoLoc == [local_path |-> NoUrl]

InitPush ==
    /\ args = NoArgs /\ pc = "standalone" /\ events = <<>> /\ result = NoResult
    /\ raised = NoExc /\ loc = NoLoc
    /\ gitLog = <<>> /\ hostLog = <<>> /\ store = <<>>
    /\ \E o \in PushUrls, known \in BOOLEAN, d \in SUBSET PushFiles,
          u \in SUBSET PushFiles, remote \in BOOLEAN :
          /\ d \cap u = {}
          /\ host = IF remote THEN PushTo(NoHost, o, NewBranch) ELSE NoHost
          /\ wc = [NoWc EXCEPT !.exists = TRUE, !.origin = o, !.head = "main",
                               !.heads = IF known THEN {"main", NewBranch} ELSE {"main"},
                               !.dirty = d, !.untracked = u]
    /\ \E t \in BOOLEAN, f \in SUBSET PushFiles, e \in PushUrls \cup {NoUrl} :
          cbp = [IdleCbp EXCEPT !.pc = "check", !.new_branch = NewBranch, !.token = t,
                                !.files = f, !.expected = e]

SpecPush == InitPush /\ [][CbpStep]_vars

----------------------------------------------------------------------------
(* core/artifacts.py *)

UuidPool == {"uuid-1", "uuid-2", "uuid-3"}

\* str(uuid.uuid4()): an id no stored report has; the operations only ever
\* compare ids for equality, so which unused id it is makes no difference
Uuid4(st) == CHOOSE u \in UuidPool : u \notin DOMAIN st

\* a store that enters no report for an empty list
StoreIssuesNonEmpty(st, report_id, issues, repo_path) ==
    IF issues = <<>> THEN st
    ELSE (report_id :> [issues |-> issues, count |-> Len(issues), repo_path |-> repo_path]) @@ st

\* a store that keeps only the report entered last
StoreIssuesLatest(st, report_id, issues, repo_path) ==
    (report_id :> [issues |-> issues, count |-> Len(issues), repo_path |-> repo_path])

\* store_issues: the report entered under report_id
StoreIssues(st, report_id, issues, repo_path) ==
    (report_id :> [issues |-> issues, count |-> Len(issues), repo_path |-> repo_path]) @@ st

----------------------------------------------------------------------------
(* agents/orchestrator.py: run_pipeline *)

MaxIssues == 1

IssueFiles == {"a.py"}
RuffResults == UNION {[1..n -> [file : IssueFiles]] : n \in 0..MaxIssues}

GeneratedFiles == {"feature.py", "IMPLEMENTATION.md"}
WorkflowFile == ".github/workflows/auto-patch.yml"

RepoUrls == {UrlGit}

\* the repositories an earlier run may have been given
EarlierUrls == {UrlGit, UrlOther}
Requirements == {"none", "add dark mode"}
BaseBranches == {"main"}

\* auto_create_pr is left at its default
AutoCreatePr == {FALSE}

NoPr == <<>>

Ev(stage, kind, info) == [stage |-> stage, kind |-> kind, info |-> info]

\* emit(): the event is handed to progress_callback
Emit(evs, stage, kind, info) == Append(evs, Ev(stage, kind, info))

\* progress_callback(stage, info) raised: the callback of a run raises on the
\* events of the stages in args.raises_on
CallbackRaised(ev) == ev.stage \in args.raises_on

\* an emit that lets the exception of the callback through
EmitLetsThrough(cbRaised) == cbRaised

\* lines 48-52, try: progress_callback(stage, info) except Exception: pass.
\* Whether the exception of the callback leaves emit
EmitPropagates(cbRaised) == FALSE

\* an emit ended the run with the exception of the callback
Aborted == \E i \in 1..Len(events) : EmitPropagates(CallbackRaised(events[i]))

\* run_pipeline is at position p
At(p) == pc = p /\ ~Aborted

Has(evs, stage, kind) == \E i \in 1..Len(evs) : evs[i].stage = stage /\ evs[i].kind = kind

\* a working copy an earlier run for repository u left at the same local path
LeftBy(u) == [NoWc EXCEPT !.exists = TRUE, !.origin = CleanUrl(u), !.head = OldBranch,
                          !.heads = {"main", OldBranch}]

InitLoc == [local_path |-> NoUrl, analysis_output |-> <<>>, report_id |-> "none",
            bandit_report_id |-> "none", generated_files |-> {},
            created_branch |-> "none", pr_url |-> NoPr]

\* the arguments of a run: the optional stages are switched from flags,
\* auto_create_pr is drawn from autos, and the callback raises on the events of
\* one of the sets of stages in callbacks
RunArgs(flags, autos, callbacks) ==
    [repo_url : RepoUrls, gh_token : BOOLEAN, base_branch : BaseBranches,
     security_lint : flags, pr_review_comments : flags, ci_integration : flags,
     confidence_scoring : flags, semantic_refactor : flags, auto_create_pr : autos,
     pr_requirement : Requirements, raises_on : callbacks]

\* run_pipeline is entered with arguments a, the local path either free or
\* holding the working copy an earlier run left under the same name
StartOf(a) ==
    /\ args = a
    /\ wc \in {NoWc} \cup {LeftBy(u) : u \in {v \in EarlierUrls : RepoName(v) = RepoName(a.repo_url)}}
    /\ pc = "clone" /\ events = <<>> /\ result = NoResult /\ raised = NoExc
    /\ loc = InitLoc /\ gitLog = <<>> /\ cbp = IdleCbp
    /\ host = NoHost /\ hostLog = <<>> /\ store = <<>>

Init == \E a \in RunArgs(BOOLEAN, AutoCreatePr, {{}}) : StartOf(a)

\* core/git_utils.py clone_repo, as run_pipeline calls it (no token is passed):
\* the working copy after a clone or a reuse, the checkout of the requested
\* branch (a failure is ignored) and the reset of origin (a failure is ignored)
ClonedWc(w, repo_url, branch, checkoutOk, setUrlOk) ==
    LET opened == IF w.exists THEN w
                  ELSE [NoWc EXCEPT !.exists = TRUE, !.origin = repo_url,
                                    !.head = "main", !.heads = {"main"}]
        onBranch == IF branch # "" /\ checkoutOk
                    THEN [opened EXCEPT !.head = branch, !.heads = @ \cup {branch}]
                    ELSE opened
    IN  IF setUrlOk THEN [onBranch EXCEPT !.origin = CleanUrl(repo_url)] ELSE onBranch

\* lines 54-57: ensure_dir, clone:start, clone_repo, clone:done
Clone ==
    /\ At("clone")
    /\ \/ \* Repo.clone_from raises: nothing in run_pipeline catches it
          /\ ~wc.exists
          /\ events' = Emit(events, "clone", "start", "none")
          /\ gitLog' = Append(gitLog, [Git("clone", FALSE) EXCEPT !.url = args.repo_url])
          /\ raised' = Exc("GitCommandError", "clone failed")
          /\ pc' = "raised"
          /\ UNCHANGED <<wc, loc>>
       \/ \E checkoutOk \in BOOLEAN, setUrlOk \in BOOLEAN :
          LET opened == IF wc.exists THEN wc.origin ELSE args.repo_url IN
          /\ wc' = ClonedWc(wc, args.repo_url, args.base_branch, checkoutOk, setUrlOk)
          /\ gitLog' = gitLog
                 \o (IF wc.exists THEN <<>> ELSE <<[Git("clone", TRUE) EXCEPT !.url = args.repo_url]>>)
                 \o (IF args.base_branch # ""
                     THEN <<[Git("checkout", checkoutOk) EXCEPT !.url = opened]>> ELSE <<>>)
                 \o <<[Git("set_url clean", setUrlOk) EXCEPT !.url = opened]>>
          /\ loc' = [loc EXCEPT !.local_path = RepoName(args.repo_url)]
          /\ events' = Emit(Emit(events, "clone", "start", "none"), "clone", "done", "local_path")
          /\ pc' = "analysis"
          /\ UNCHANGED raised
    /\ UNCHANGED <<args, result, cbp, host, hostLog, store>>
    /\ Bounded'

\* lines 66-72: requirement mode stores an empty report
Requirement ==
    /\ At("analysis") /\ args.pr_requirement # "none"
    /\ LET report_id == Uuid4(store) IN
       /\ store' = StoreIssues(store, report_id, <<>>, loc.local_path)
       /\ loc' = [loc EXCEPT !.report_id = report_id,
                     !.analysis_output = <<"Requirement: ", args.pr_requirement,
                                           "Reference ID: ", report_id>>]
    /\ events' = Emit(Emit(events, "requirement", "start", args.pr_requirement),
                      "requirement", "done", args.pr_requirement)
    /\ pc' = "security"
    /\ UNCHANGED <<args, result, raised, wc, gitLog, cbp, host, hostLog>>

\* agents/analysis_agent.py analyze_repo_for_issues: the text it returns
AnalysisText(report_id) == <<"Issues stored. Reference ID: ", report_id, " (found n issues)">>

\* lines 74-86: scan, lint, analyze
Analyze ==
    /\ At("analysis") /\ args.pr_requirement = "none"
    /\ \E issues \in RuffResults :
          LET report_id == Uuid4(store)
              out == AnalysisText(report_id)
          IN
          /\ store' = StoreIssues(store, report_id, issues, loc.local_path)
          /\ loc' = [loc EXCEPT !.analysis_output = out, !.report_id = "none"]
          /\ events' = events \o <<Ev("scan", "start", "none"), Ev("lint", "start", "none"),
                                   Ev("analyze", "start", "none"), Ev("analyze", "done", report_id),
                                   Ev("lint", "done", report_id), Ev("scan", "done", "local_path")>>
    /\ pc' = "security"
    /\ UNCHANGED <<args, result, raised, wc, gitLog, cbp, host, hostLog>>

\* lines 90-97: the optional Bandit scan; run_bandit_on_path stores a report only
\* when it found issues, returns a text when Bandit could not run, and raises
\* when the output of a run cannot be parsed
Security ==
    /\ At("security")
    /\ IF ~args.security_lint
       THEN UNCHANGED <<events, loc, store>>
       ELSE \/ /\ store' = StoreIssues(store, Uuid4(store), <<[file |-> "a.py"]>>, loc.local_path)
               /\ loc' = [loc EXCEPT !.bandit_report_id = Uuid4(store)]
               /\ events' = Emit(Emit(events, "security", "start", "none"),
                                 "security", "done", Uuid4(store))
            \/ /\ store' = store
               /\ loc' = [loc EXCEPT !.bandit_report_id = "No security issues found."]
               /\ events' = Emit(Emit(events, "security", "start", "none"),
                                 "security", "done", "No security issues found.")
            \/ /\ store' = store
               /\ loc' = [loc EXCEPT !.bandit_report_id = BanditFailed]
               /\ events' = Emit(Emit(events, "security", "start", "none"),
                                 "security", "done", BanditFailed)
            \/ /\ store' = store
               /\ loc' = loc
               /\ events' = Emit(Emit(events, "security", "start", "none"),
                                 "security", "error", "bandit output unreadable")
    /\ pc' = "semantic"
    /\ UNCHANGED <<args, result, raised, wc, gitLog, cbp, host, hostLog>>
    /\ Bounded'

\* lines 100-103: the optional semantic pass (run_semantic_refactor returns a constant)
Semantic ==
    /\ At("semantic")
    /\ events' = IF args.semantic_refactor
                 THEN Emit(Emit(events, "semantic", "start", "none"),
                           "semantic", "done", "No semantic refactors performed.")
                 ELSE events
    /\ pc' = "extract"
    /\ UNCHANGED <<args, result, raised, loc, wc, gitLog, cbp, host, hostLog, store>>

\* a requirement text that quotes an id of its own, and that id
TicketId == "deadbeef-0000-4000-8000-000000000000"
RequirementWithId == "port the fix of deadbeef-0000-4000-8000-000000000000"

\* the first run of 36 characters of [a-f0-9-] in a piece of text
HexRun(piece) ==
    IF piece \in UuidPool THEN piece
    ELSE IF piece = RequirementWithId THEN TicketId
    ELSE "none"

\* re.search(r"([a-f0-9\-]{36})", text): the first run of 36 such characters
ReSearch(text) ==
    IF \E i \in 1..Len(text) : HexRun(text[i]) # "none"
    THEN HexRun(text[CHOOSE i \in 1..Len(text) :
                        HexRun(text[i]) # "none"
                        /\ \A j \in 1..(i - 1) : HexRun(text[j]) = "none"])
    ELSE "none"

\* lines 108-113: the report id is read back from the analysis text
ExtractReportId ==
    /\ At("extract")
    /\ LET match == ReSearch(loc.analysis_output) IN
       IF match = "none"
       THEN /\ result' = [status |-> "failed", reason |-> "no_analysis_report"]
            /\ pc' = "returned"
            /\ loc' = loc
       ELSE /\ loc' = [loc EXCEPT !.report_id = match]
            /\ pc' = "fix"
            /\ result' = result
    /\ UNCHANGED <<args, events, raised, wc, gitLog, cbp, host, hostLog, store>>

\* lines 116-132: generate/fix. Requirement mode writes new files and returns
\* their paths, or raises; lint-fix mode rewrites the files of the issues whose
\* fix came back (agents/fix_agent_new.py)
Fix ==
    /\ At("fix")
    /\ LET started == events \o <<Ev("generate", "start", loc.report_id),
                                  Ev("fix", "start", loc.report_id)>>
           closing == <<Ev("generate", "done", loc.report_id), Ev("apply", "done", loc.report_id)>>
       IN
       IF args.pr_requirement # "none"
       THEN \/ /\ wc' = [wc EXCEPT !.untracked = @ \cup GeneratedFiles]
               /\ loc' = [loc EXCEPT !.generated_files = GeneratedFiles]
               /\ events' = started \o <<Ev("fix", "done", loc.report_id)>> \o closing
            \/ /\ wc' = wc
               /\ loc' = loc
               /\ events' = started \o <<Ev("fix", "error", "generation failed")>> \o closing
       ELSE \E fixed \in SUBSET {store[loc.report_id].issues[i].file :
                                    i \in 1..store[loc.report_id].count} :
               /\ wc' = [wc EXCEPT !.dirty = @ \cup fixed]
               /\ loc' = loc
               /\ events' = started \o <<Ev("fix", "done", loc.report_id)>> \o closing
    /\ pc' = "confidence"
    /\ UNCHANGED <<args, result, raised, gitLog, cbp, host, hostLog, store>>
    /\ Bounded'

\* lines 136-142: compute_confidence catches its own failures and returns a dict
Confidence ==
    /\ At("confidence")
    /\ events' = IF args.confidence_scoring
                 THEN Emit(Emit(events, "confidence", "start", "none"),
                           "confidence", "done", "score")
                 ELSE events
    /\ pc' = "ci"
    /\ UNCHANGED <<args, result, raised, loc, wc, gitLog, cbp, host, hostLog, store>>

\* lines 145-170: write_file returns an error text instead of raising, so ci:done
\* follows whether or not the workflow file was written
Ci ==
    /\ At("ci")
    /\ IF args.ci_integration
       THEN \E written \in BOOLEAN :
               /\ wc' = IF written THEN [wc EXCEPT !.untracked = @ \cup {WorkflowFile}] ELSE wc
               /\ gitLog' = Append(gitLog, Git("write_file", written))
               /\ events' = Emit(Emit(events, "ci", "start", "none"), "ci", "done", WorkflowFile)
       ELSE UNCHANGED <<wc, gitLog, events>>
    /\ pc' = "publish"
    /\ UNCHANGED <<args, result, raised, loc, cbp, host, hostLog, store>>
    /\ Bounded'

\* lines 182-190: origin_url and provided and origin_url != provided, where
\* origin_url is None when reading the origin raised
OriginRefused(readOk, origin, repo_url) ==
    /\ readOk
    /\ Normalize(origin) # <<>>
    /\ Normalize(repo_url) # <<>>
    /\ Normalize(origin) # Normalize(repo_url)

\* lines 191-194: what the refusal emits
RefusalEvents == <<Ev("push", "error", "refusing to push: origin mismatch")>>

\* lines 174-196: publish:start, commit:start, the origin check, then the call of
\* create_branch_and_push (no expected_origin is passed)
Publish ==
    /\ At("publish")
    /\ \E readOk \in BOOLEAN :
          LET started == events \o <<Ev("publish", "start", "none"),
                                     Ev("commit", "start", NewBranch)>>
          IN
          /\ gitLog' = Append(gitLog, Git("read origin", readOk))
          /\ IF OriginRefused(readOk, wc.origin, args.repo_url)
             THEN /\ events' = started \o RefusalEvents
                  /\ result' = [status |-> "failed", reason |-> "repo_mismatch",
                                detail |-> "refusing to push: origin mismatch"]
                  /\ pc' = "returned"
                  /\ cbp' = cbp
             ELSE /\ events' = started
                  /\ result' = result
                  /\ pc' = "cbp"
                  /\ cbp' = [IdleCbp EXCEPT !.pc = "check", !.new_branch = NewBranch,
                                !.token = args.gh_token, !.files = loc.generated_files,
                                !.msg = args.pr_requirement, !.expected = NoUrl]
    /\ UNCHANGED <<args, raised, loc, wc, host, hostLog, store>>
    /\ Bounded'

\* lines 208-211: the stages marked failed after a merge conflict
ConflictEvents(e) ==
    <<Ev("publish", "error", e.msg),
      Ev("pr", "error", "Cannot create PR due to merge conflict"),
      Ev("prreview", "error", "Cannot review PR due to merge conflict")>>

\* a handler in which the conflict is reported as an ordinary push failure
ConflictResultAsPushError(e) == [status |-> "failed", reason |-> "push_error", detail |-> e.msg]

\* line 213
ConflictResult(e) == [status |-> "failed", reason |-> "merge_conflict", detail |-> e.msg]

\* lines 199-213: MergeConflictError: notify through create_issue (a failure of
\* which is passed over), mark the remaining stages failed, return
PushConflict ==
    /\ At("cbp") /\ cbp.pc = "raised" /\ cbp.exc.type = "MergeConflictError"
    /\ \E issueOk \in BOOLEAN :
          /\ hostLog' = Append(hostLog, Req("create_issue", Normalize(args.repo_url), issueOk))
          /\ host' = IF issueOk THEN [host EXCEPT !.issues = @ + 1] ELSE host
          /\ events' = events \o <<Ev("push", "conflict", cbp.exc.msg)>>
                 \o (IF issueOk THEN <<Ev("cloner", "notify", "issue_url")>> ELSE <<>>)
                 \o ConflictEvents(cbp.exc)
    /\ result' = ConflictResult(cbp.exc)
    /\ pc' = "returned"
    /\ UNCHANGED <<args, raised, loc, wc, gitLog, cbp, store>>
    /\ Bounded'

\* a handler that leaves the review stage open
PushErrorEventsNoReview(e) ==
    <<Ev("push", "error", e.msg), Ev("publish", "error", e.msg), Ev("pr", "error", e.msg)>>

\* lines 215-218: the stages marked failed after any other exception
PushErrorEvents(e) ==
    <<Ev("push", "error", e.msg), Ev("publish", "error", e.msg),
      Ev("pr", "error", e.msg), Ev("prreview", "error", e.msg)>>

\* line 219
PushErrorResult(e) == [status |-> "failed", reason |-> "push_error", detail |-> e.msg]

\* lines 214-219: any other exception of create_branch_and_push
PushError ==
    /\ At("cbp") /\ cbp.pc = "raised" /\ cbp.exc.type # "MergeConflictError"
    /\ events' = events \o PushErrorEvents(cbp.exc)
    /\ result' = PushErrorResult(cbp.exc)
    /\ pc' = "returned"
    /\ UNCHANGED <<args, raised, loc, wc, gitLog, cbp, host, hostLog, store>>

----------------------------------------------------------------------------
(* agents/publish_agent.py *)

\* clean = repo_url.rstrip("/").replace(".git", ""), line 117
\* the pulls endpoint of a repository, filtered by a head branch
PrUrl(clean, head) == clean \o <<"/pulls?head=", head>>

\* the html_url of pull request number n
HtmlUrl(clean, n) == clean \o <<"/pull/", ToString(n)>>

\* the pull requests of a head branch on the host, in any state; the host
\* numbers pull requests in the order of their creation
PrsOf(h, clean, head) ==
    {n \in 1..Len(h.prs) : h.prs[n].repo = clean /\ h.prs[n].head = head}

\* prs[0] of a listing: the host lists the newest pull request first
FirstListed(h, clean, head) ==
    HtmlUrl(clean, CHOOSE n \in PrsOf(h, clean, head) :
                      \A m \in PrsOf(h, clean, head) : m <= n)

\* the host after it opened a pull request of the head branch
Opened(h, clean, head) ==
    [h EXCEPT !.prs = Append(@, [repo |-> clean, head |-> head, open |-> TRUE])]

PostStatuses == {"201", "422 raced", "422", "403"}

\* the answers the host can give to a create request: it opens a pull request
\* only while the head branch has no open one
HostAnswers(h, clean, head) ==
    IF \E n \in PrsOf(h, clean, head) : h.prs[n].open
    THEN {"422", "403"} ELSE PostStatuses

\* a create_pull_request that is skipped
CreatePullRequestSkipped(h, clean, head, listOk, post, relistOk) ==
    [host |-> h, calls |-> <<>>, ret |-> NoPr, exc |-> NoExc]

\* a create_pull_request that propagates every rejection of its create request
CreatePullRequestNoRequery(h, clean, head, listOk, post, relistOk) ==
    LET url == PrUrl(clean, head)
        calls == <<Req("list_prs", url, listOk), Req("create_pr", url, post = "201")>>
        opened == Opened(h, clean, head)
    IN  IF listOk /\ PrsOf(h, clean, head) # {}
        THEN [host |-> h, calls |-> <<calls[1]>>, ret |-> FirstListed(h, clean, head),
              exc |-> NoExc]
        ELSE IF post = "201"
        THEN [host |-> opened, calls |-> calls, ret |-> HtmlUrl(clean, Len(opened.prs)),
              exc |-> NoExc]
        ELSE [host |-> IF post = "422 raced" THEN opened ELSE h, calls |-> calls,
              ret |-> NoPr, exc |-> Exc("HTTPError", post)]

\* create_pull_request, lines 115-164, for the repository whose cleaned URL is
\* clean. listOk: the first listing answered 200; post: how the host answers
\* the create request ("422 raced": another client opened the pull request of
\* this head after the listing); relistOk: the listing after a 422 answered
\* 200. The record holds the host afterwards, the calls made, and the URL
\* returned or the error raised
CreatePullRequest(h, clean, head, listOk, post, relistOk) ==
    LET url == PrUrl(clean, head)
        list == Req("list_prs", url, listOk)
        relist == Req("list_prs", url, relistOk)
        create == Req("create_pr", url, post = "201")
        opened == Opened(h, clean, head)
        after == IF post = "422 raced" THEN opened ELSE h
    IN  IF listOk /\ PrsOf(h, clean, head) # {}
        THEN [host |-> h, calls |-> <<list>>, ret |-> FirstListed(h, clean, head),
              exc |-> NoExc]
        ELSE CASE post = "201" ->
                    [host |-> opened, calls |-> <<list, create>>,
                     ret |-> HtmlUrl(clean, Len(opened.prs)), exc |-> NoExc]
               [] post \in {"422", "422 raced"} ->
                    IF relistOk /\ PrsOf(after, clean, head) # {}
                    THEN [host |-> after, calls |-> <<list, create, relist>>,
                          ret |-> FirstListed(after, clean, head), exc |-> NoExc]
                    ELSE [host |-> after, calls |-> <<list, create, relist>>, ret |-> NoPr,
                          exc |-> Exc("HTTPError", "422")]
               [] OTHER ->
                    [host |-> h, calls |-> <<list, create>>, ret |-> NoPr,
                     exc |-> Exc("HTTPError", post)]

CommentStatuses == {"201", "401", "403", "404", "500"}

\* post_pr_comment, lines 196-214: the error raised for a failed request
CommentError(status) ==
    CASE status = "403" -> Exc("PermissionError", "403 Forbidden")
      [] status = "404" -> Exc("ValueError", "404 Not Found")
      [] status = "401" -> Exc("PermissionError", "401 Unauthorized")
      [] status = "201" -> NoExc
      [] OTHER -> Exc("Exception", "GitHub API error")

----------------------------------------------------------------------------
(* agents/orchestrator.py: run_pipeline, after a successful push *)

\* lines 197-198 and 222-268: the push succeeded; the pull request is created
\* whatever auto_create_pr says
PushDone ==
    /\ At("cbp") /\ cbp.pc = "returned"
    /\ \E listOk \in BOOLEAN, post \in HostAnswers(host, Normalize(args.repo_url), cbp.ret),
          relistOk \in BOOLEAN :
          LET r == CreatePullRequest(host, Normalize(args.repo_url), cbp.ret,
                                     listOk, post, relistOk)
              started == events \o <<Ev("commit", "done", cbp.ret), Ev("push", "done", cbp.ret),
                                     Ev("publish", "start", "none")>>
          IN
          /\ host' = r.host
          /\ hostLog' = hostLog \o r.calls
          /\ loc' = [loc EXCEPT !.created_branch = cbp.ret, !.pr_url = r.ret]
          /\ events' = IF r.exc = NoExc
                       THEN started \o <<Ev("pr", "created", "pr_url"),
                                         Ev("publish", "done", "pr_url")>>
                       ELSE started \o <<Ev("pr", "error", r.exc.msg),
                                         Ev("publish", "done", cbp.ret)>>
    /\ pc' = "review"
    /\ UNCHANGED <<args, result, raised, wc, gitLog, cbp, store>>
    /\ Bounded'

\* a result that reports the run as failed when no pull request was created
ResultFailedWithoutPr(l) ==
    [status |-> IF l.pr_url = NoPr THEN "failed" ELSE "ok", branch |-> l.created_branch,
     pr_url |-> l.pr_url, bandit |-> l.bandit_report_id]

\* line 302
OkResult(l) == [status |-> "ok", branch |-> l.created_branch, pr_url |-> l.pr_url,
                bandit |-> l.bandit_report_id]

\* a review that is attempted whenever it was asked for
PostsCommentWhenAsked(review, pr_url) == review

\* lines 272-277: post_pr_comment is reached when the flag is set and pr_url holds
PostsComment(review, pr_url) == review /\ pr_url # NoPr

\* lines 272-304: the optional review comment, the result event, the return
Review ==
    /\ At("review")
    /\ LET finish(evs) == Append(evs, [stage |-> "result", kind |-> "result", info |-> "res"])
       IN
       IF ~args.pr_review_comments
       THEN /\ events' = finish(Emit(events, "prreview", "done", "Review not requested"))
            /\ UNCHANGED <<host, hostLog>>
       ELSE IF ~PostsComment(args.pr_review_comments, loc.pr_url)
       THEN /\ events' = finish(Emit(events, "prreview", "error", "Cannot review PR - PR creation failed"))
            /\ UNCHANGED <<host, hostLog>>
       ELSE \E status \in CommentStatuses :
            /\ hostLog' = Append(hostLog, Req("post_comment", loc.pr_url, status = "201"))
            /\ host' = IF status = "201" THEN [host EXCEPT !.comments = @ + 1] ELSE host
            /\ events' = finish(IF status = "201"
                                THEN Emit(events, "prreview", "done", "pr_url")
                                ELSE Emit(events, "prreview", "error", CommentError(status).msg))
    /\ result' = OkResult(loc)
    /\ pc' = "returned"
    /\ UNCHANGED <<args, raised, loc, wc, gitLog, cbp, store>>
    /\ Bounded'

Next ==
    \/ Clone
    \/ Requirement
    \/ Analyze
    \/ Security
    \/ Semantic
    \/ ExtractReportId
    \/ Fix
    \/ Confidence
    \/ Ci
    \/ Publish
    \/ CbpStep
    \/ PushDone
    \/ PushConflict
    \/ PushError
    \/ Review

Spec == Init /\ [][Next]_vars

----------------------------------------------------------------------------
(* run_pipeline with a progress callback that raises *)

\* every stage name the code passes to emit
EmittedStageNames ==
    {"clone", "requirement", "scan", "lint", "analyze", "security", "semantic",
     "generate", "fix", "apply", "confidence", "ci", "publish", "commit", "push",
     "cloner", "pr", "prreview", "result"}

\* the callbacks followed: one that never raises, ones that raise on the events
\* of some stages, one that raises on every event
Callbacks == {{}, {"clone"}, {"push", "pr", "result"}, EmittedStageNames}

InitCallback == \E a \in RunArgs({TRUE}, AutoCreatePr, Callbacks) : StartOf(a)

SpecCallback == InitCallback /\ [][Next]_vars

----------------------------------------------------------------------------
(* run_pipeline with auto_create_pr on or off, the optional stages all on or
   all off *)

InitAuto == \E f \in BOOLEAN : \E a \in RunArgs({f}, BOOLEAN, {{}}) : StartOf(a)

SpecAuto == InitAuto /\ [][Next]_vars

----------------------------------------------------------------------------
(* run_pipeline with the optional stages on, for requirement texts that do or
   do not quote an id *)

RequirementTexts == Requirements \cup {RequirementWithId}

InitRequirement ==
    \E a \in RunArgs({TRUE}, AutoCreatePr, {{}}), r \in RequirementTexts :
        StartOf([a EXCEPT !.pr_requirement = r])

SpecRequirement == InitRequirement /\ [][Next]_vars

----------------------------------------------------------------------------
(* agents/publish_agent.py: create_pull_request called repeatedly for one head
   branch, on a host that may already hold pull requests *)

MaxOldPrs == 1
MaxPrCalls == 2

PrHeads == {NewBranch, OldBranch}

\* the pull requests a host may hold beforehand: open or closed, at most one
\* open per head branch
OldPrs ==
    {q \in UNION {[1..n -> [repo : {Normalize(UrlGit)}, head : PrHeads, open : BOOLEAN]] :
                     n \in 0..MaxOldPrs} :
        \A i \in 1..Len(q), j \in 1..Len(q) :
            (i # j /\ q[i].head = q[j].head) => ~(q[i].open /\ q[j].open)}

InitPr ==
    /\ args = [repo_url |-> UrlGit, clean |-> Normalize(UrlGit), head |-> NewBranch]
    /\ pc = "pr_calls" /\ events = <<>> /\ result = <<>> /\ raised = NoExc
    /\ loc = NoLoc /\ wc = NoWc /\ gitLog = <<>> /\ cbp = IdleCbp
    /\ host \in {[NoHost EXCEPT !.prs = q] : q \in OldPrs}
    /\ hostLog = <<>> /\ store = <<>>

\* one call of create_pull_request(repo_url, head, ...); result collects what
\* each call found, sent, and returned or raised
PrCall ==
    /\ pc = "pr_calls" /\ Len(result) < MaxPrCalls
    /\ \E listOk \in BOOLEAN, post \in HostAnswers(host, args.clean, args.head),
          relistOk \in BOOLEAN :
          LET r == CreatePullRequest(host, args.clean, args.head, listOk, post, relistOk) IN
          /\ host' = r.host
          /\ hostLog' = hostLog \o r.calls
          /\ result' = Append(result, [ret |-> r.ret, exc |-> r.exc, calls |-> r.calls,
                                       answer |-> post, relistOk |-> relistOk,
                                       existed |-> PrsOf(host, args.clean, args.head) # {}])
    /\ UNCHANGED <<args, pc, events, raised, loc, wc, gitLog, cbp, store>>

SpecPr == InitPr /\ [][PrCall]_vars

----------------------------------------------------------------------------
(* app.py: the review button, calling agents/publish_agent.py: post_pr_comment *)

MaxClicks == 3

\* app.py 539-557: the except clause that handles an error of post_pr_comment
ReviewHandler(exc) ==
    CASE exc = NoExc -> "success"
      [] exc.type = "PermissionError" -> "Access Denied"
      [] exc.type = "ValueError" -> "Invalid Request"
      [] OTHER -> "Review failed"

InitReview ==
    /\ args = [repo_url |-> UrlGit, clean |-> Normalize(UrlGit), pr_number |-> 1]
    /\ pc = "review_button" /\ events = <<>> /\ result = <<>> /\ raised = NoExc
    /\ loc = NoLoc /\ wc = NoWc /\ gitLog = <<>> /\ cbp = IdleCbp
    /\ host = NoHost /\ hostLog = <<>> /\ store = <<>>

\* app.py 506-509: the button is pressed while the repo URL or the token is
\* not configured
ClickUnconfigured ==
    /\ pc = "review_button" /\ Len(result) < MaxClicks
    /\ result' = Append(result, [status |-> "none", exc |-> NoExc, shown |-> "configure"])
    /\ UNCHANGED <<args, pc, events, raised, loc, wc, gitLog, cbp, host, hostLog, store>>

\* app.py 510-557: the button is pressed and post_pr_comment is called; the
\* host answers the request with status
ClickReview ==
    /\ pc = "review_button" /\ Len(result) < MaxClicks
    /\ \E status \in CommentStatuses :
          LET exc == CommentError(status) IN
          /\ hostLog' = Append(hostLog, Req("post_comment",
                                            HtmlUrl(args.clean, args.pr_number), exc = NoExc))
          /\ result' = Append(result, [status |-> status, exc |-> exc,
                                       shown |-> ReviewHandler(exc)])
    /\ UNCHANGED <<args, pc, events, raised, loc, wc, gitLog, cbp, host, store>>

NextReview == ClickUnconfigured \/ ClickReview

SpecReview == InitReview /\ [][NextReview]_vars

----------------------------------------------------------------------------
(* agents/fix_agent_new.py: fix_issues_with_llm *)

MaxReportIssues == 3

Whitespace == {" ", "\n"}

\* str.strip(): leading and trailing whitespace removed
RECURSIVE Strip(_)
Strip(s) ==
    IF s = <<>> THEN s
    ELSE IF s[1] \in Whitespace THEN Strip(Tail(s))
    ELSE IF s[Len(s)] \in Whitespace THEN Strip(SubSeq(s, 1, Len(s) - 1))
    ELSE s

\* a response test that leaves out the strip()
UsableIfNonEmpty(resp) == resp # <<>>

\* a response test that accepts every response
UsableAlways(resp) == TRUE

\* line 60: fix_resp and fix_resp.strip()
Usable(resp) == resp # <<>> /\ Strip(resp) # <<>>

\* line 37: issue.get("filename") or issue.get("file"); "" stands for an absent
\* or empty entry
Filename(issue) == IF issue.filename # "" THEN issue.filename ELSE issue.file

\* the files of the working copy the issues can name, and their content
OldContent == <<"o">>
FilesOnDisk == [f \in {"a.py", "b.py"} |-> OldContent]

\* the issue records of a report: "gone.py" names a file that is not on disk
FixIssues == [filename : {"", "a.py"}, file : {"", "b.py", "gone.py"}]
FixReports == UNION {[1..n -> FixIssues] : n \in 0..MaxReportIssues}

\* what run_agent can return: nothing, only whitespace, or text
Responses == {<<>>, <<" ", "\n">>, <<"x", "\n">>}

\* core/git_utils.py write_file never raises: the file holds the content, or
\* opening it failed and it is as before, or writing failed after open(.., "w")
\* emptied it
WriteOutcomes == {"written", "open failed", "write failed"}

WriteFile(files, f, content, outcome) ==
    CASE outcome = "written" -> [files EXCEPT ![f] = content]
      [] outcome = "open failed" -> files
      [] OTHER -> [files EXCEPT ![f] = <<>>]

\* what the environment does during one iteration: whether the file can be
\* read, how the generator call ends, and how the write ends
NotCalled == [gen |-> "not called", resp |-> <<>>]
LoopOutcomes ==
    [readable : BOOLEAN, gen : {"timeout", "error"}, resp : {<<>>}, write : {"written"}]
    \cup [readable : BOOLEAN, gen : {"response"}, resp : Responses, write : WriteOutcomes]

\* lines 37-72: one iteration of the loop; the files afterwards, the increment
\* of fixed_count, the line printed, and how the generator call ended
FixIssue(files, issue, o) ==
    LET filename == Filename(issue)
        called == [gen |-> o.gen, resp |-> o.resp]
    IN  IF filename = ""
        THEN [files |-> files, fixed |-> 0, msg |-> "No filename, skipping", call |-> NotCalled]
        ELSE IF filename \notin DOMAIN files
        THEN [files |-> files, fixed |-> 0, msg |-> "File not found", call |-> NotCalled]
        ELSE IF ~o.readable
        THEN [files |-> files, fixed |-> 0, msg |-> "Error processing issue", call |-> NotCalled]
        ELSE CASE o.gen = "timeout" ->
                    [files |-> files, fixed |-> 0, msg |-> "LLM timeout", call |-> called]
               [] o.gen = "error" ->
                    [files |-> files, fixed |-> 0, msg |-> "LLM error", call |-> called]
               [] OTHER ->
                    IF Usable(o.resp)
                    THEN [files |-> WriteFile(files, filename, o.resp, o.write), fixed |-> 1,
                          msg |-> "Updated", call |-> called]
                    ELSE [files |-> files, fixed |-> 0, msg |-> "LLM returned empty response",
                          call |-> called]

NoFix == [idx |-> 0, issue_count |-> 0, fixed_count |-> 0, visited |-> <<>>,
          summary |-> "none", in_flight |-> 0, generator |-> "none"]

InitFix ==
    /\ pc = "fix_issues" /\ events = <<>> /\ result = NoResult /\ raised = NoExc
    /\ loc = NoFix /\ gitLog = <<>> /\ cbp = IdleCbp
    /\ host = NoHost /\ hostLog = <<>>
    /\ wc = [files |-> FilesOnDisk]
    /\ \E issues \in FixReports, known \in BOOLEAN :
          /\ store = StoreIssues(<<>>, "uuid-1", issues, NoUrl)
          /\ args = [report_id |-> IF known THEN "uuid-1" ELSE "uuid-2"]

\* lines 22-35: the report is looked up; a missing report or one without issues
\* ends the call
FixStart ==
    /\ pc = "fix_issues"
    /\ IF args.report_id \notin DOMAIN store
       THEN pc' = "fix_returned" /\ loc' = [loc EXCEPT !.summary = "Report id not found"]
       ELSE LET issue_count == Len(store[args.report_id].issues) IN
            IF issue_count = 0
            THEN /\ pc' = "fix_returned"
                 /\ loc' = [loc EXCEPT !.summary = "No issues to fix"]
            ELSE /\ pc' = "fix_loop"
                 /\ loc' = [loc EXCEPT !.idx = 1, !.issue_count = issue_count]
    /\ UNCHANGED <<args, events, result, raised, wc, gitLog, cbp, host, hostLog, store>>

\* lines 36-74: one iteration of the loop, up to the next await or to the
\* summary line after the last issue; visited records, per iteration, the
\* issue, the line printed, the generator call and the files whose content
\* the iteration changed
FixLoop ==
    /\ pc = "fix_loop"
    /\ \E o \in LoopOutcomes :
          LET issue == store[args.report_id].issues[loc.idx]
              r == FixIssue(wc.files, issue, o)
              last == loc.idx = loc.issue_count
          IN
          /\ wc' = [wc EXCEPT !.files = r.files]
          /\ loc' = [loc EXCEPT
                        !.idx = @ + 1,
                        !.fixed_count = @ + r.fixed,
                        !.visited = Append(@, [idx |-> loc.idx, issue |-> issue,
                                                msg |-> r.msg, call |-> r.call,
                                                changed |-> {f \in DOMAIN wc.files :
                                                               r.files[f] # wc.files[f]}]),
                        !.summary = IF last THEN "Completed" ELSE @]
          /\ pc' = IF last THEN "fix_returned" ELSE "fix_loop"
    /\ UNCHANGED <<args, events, result, raised, gitLog, cbp, host, hostLog, store>>

NextFix == FixStart \/ FixLoop

SpecFix == InitFix /\ [][NextFix]_vars

----------------------------------------------------------------------------
(* agents/fix_agent_new.py: fix_issues_with_llm, with the generator call as a
   suspension of its own *)

\* how the generator behaves on a call: it never answers, it raises, or it
\* streams a response to its end
GeneratorBehaviours == {"silent", "error", "response"}

\* an await that has no timeout: a silent generator keeps it pending
WaitForever(behaviour) == IF behaviour = "silent" THEN "pending" ELSE behaviour

\* line 59: asyncio.wait_for(run_agent(..), timeout=30.0) abandons a call that
\* has not answered when the timeout expires
WaitFor(behaviour) == IF behaviour = "silent" THEN "timeout" ELSE behaviour

\* the entry one iteration adds to visited
Visit(idx, issue, r, files) ==
    [idx |-> idx, issue |-> issue, msg |-> r.msg, call |-> r.call,
     changed |-> {f \in DOMAIN files : r.files[f] # files[f]}]

\* lines 36-59: an iteration up to its await; an issue without a usable file
\* is skipped on the spot, otherwise the generator is called
FixEnter ==
    /\ pc = "fix_loop"
    /\ LET issue == store[args.report_id].issues[loc.idx]
           filename == Filename(issue)
           last == loc.idx = loc.issue_count
           skip(r) ==
               /\ loc' = [loc EXCEPT !.idx = @ + 1,
                                      !.visited = Append(@, Visit(loc.idx, issue, r, wc.files)),
                                      !.summary = IF last THEN "Completed" ELSE @]
               /\ pc' = IF last THEN "fix_returned" ELSE "fix_loop"
       IN
       IF filename = "" \/ filename \notin DOMAIN wc.files
       THEN skip(FixIssue(wc.files, issue, [readable |-> TRUE, gen |-> "timeout",
                                            resp |-> <<>>, write |-> "written"]))
       ELSE \/ skip(FixIssue(wc.files, issue, [readable |-> FALSE, gen |-> "timeout",
                                                resp |-> <<>>, write |-> "written"]))
            \/ \E b \in GeneratorBehaviours :
                  /\ loc' = [loc EXCEPT !.in_flight = @ + 1, !.generator = b]
                  /\ pc' = "fix_await"
    /\ UNCHANGED <<args, events, result, raised, wc, gitLog, cbp, host, hostLog, store>>

\* lines 59-74: the await ends, by an answer, an error or the timeout, and the
\* iteration runs to the next await or to the summary line
FixResume ==
    /\ pc = "fix_await" /\ WaitFor(loc.generator) # "pending"
    /\ \E o \in LoopOutcomes :
          /\ o.readable /\ o.gen = WaitFor(loc.generator)
          /\ LET issue == store[args.report_id].issues[loc.idx]
                 r == FixIssue(wc.files, issue, o)
                 last == loc.idx = loc.issue_count
             IN
             /\ wc' = [wc EXCEPT !.files = r.files]
             /\ loc' = [loc EXCEPT
                           !.idx = @ + 1,
                           !.fixed_count = @ + r.fixed,
                           !.visited = Append(@, Visit(loc.idx, issue, r, wc.files)),
                           !.summary = IF last THEN "Completed" ELSE @,
                           !.in_flight = @ - 1,
                           !.generator = "none"]
             /\ pc' = IF last THEN "fix_returned" ELSE "fix_loop"
    /\ UNCHANGED <<args, events, result, raised, gitLog, cbp, host, hostLog, store>>

NextFixLive == FixStart \/ FixEnter \/ FixResume

\* the event loop runs the coroutine whenever it can take a step, and the
\* timer of wait_for expires
SpecFixLive == InitFix /\ [][NextFixLive]_vars /\ WF_vars(NextFixLive)

----------------------------------------------------------------------------
(* core/artifacts.py: store_issues, get_artifact and fetch_issue_batch called
   by several pipeline runs at once *)

MaxStoreCalls == 3

Runs == {"run-1", "run-2"}
StorePath == <<"temp_repos/", "repo">>

IdleFrame == [pc |-> "idle", issues |-> <<>>, report_id |-> "none"]

\* the calls begun so far
CallsBegun == Len(result) + Cardinality({r \in Runs : loc.frames[r].pc # "idle"})

\* the ids store_issues calls have returned to their callers
ReturnedIds == {result[i].ret[1] : i \in {j \in 1..Len(result) : result[j].op = "store_issues"}}

\* ids counted as taken when only the stored reports are looked at
DrawnStoredOnly(st, frames) == [u \in DOMAIN st |-> TRUE]

\* line 10: uuid.uuid4() never repeats an id, whether the id drawn earlier is
\* stored already or still held by a call in progress
Drawn(st, frames) ==
    [u \in DOMAIN st \cup {frames[r].report_id : r \in {q \in Runs : frames[q].pc # "idle"}}
        |-> TRUE]

\* get_artifact, lines 26-27: ARTIFACT_STORE.get(report_id), <<>> for None
GetArtifact(st, report_id) == IF report_id \in DOMAIN st THEN <<st[report_id]>> ELSE <<>>

\* fetch_issue_batch, lines 19-24, with the default batch_size of 3
FetchIssueBatch(st, report_id) ==
    IF report_id \notin DOMAIN st THEN <<"Error: Report ID not found.">>
    ELSE IF st[report_id].issues = <<>> THEN <<"No more issues to fix.">>
    ELSE SubSeq(st[report_id].issues, 1,
                IF Len(st[report_id].issues) < 3 THEN Len(st[report_id].issues) ELSE 3)

InitStore ==
    /\ args = NoArgs /\ pc = "store_calls" /\ events = <<>> /\ result = <<>>
    /\ raised = NoExc /\ wc = NoWc /\ gitLog = <<>> /\ cbp = IdleCbp
    /\ host = NoHost /\ hostLog = <<>> /\ store = <<>>
    /\ loc = [frames |-> [r \in Runs |-> IdleFrame], last_issues |-> <<>>]

\* lines 8-10: a run calls store_issues(issues, repo_path) and draws the id
StoreBegin(r) ==
    /\ loc.frames[r].pc = "idle" /\ CallsBegun < MaxStoreCalls
    /\ \E issues \in RuffResults :
          loc' = [loc EXCEPT !.frames[r] =
                     [pc |-> "put", issues |-> issues,
                      report_id |-> Uuid4(Drawn(store, loc.frames))]]
    /\ UNCHANGED <<args, pc, events, result, raised, wc, gitLog, cbp, host, hostLog, store>>

\* lines 11-15: the report is entered
StorePut(r) ==
    /\ loc.frames[r].pc = "put"
    /\ store' = StoreIssues(store, loc.frames[r].report_id, loc.frames[r].issues, StorePath)
    /\ loc' = [loc EXCEPT !.frames[r].pc = "bank"]
    /\ UNCHANGED <<args, pc, events, result, raised, wc, gitLog, cbp, host, hostLog>>

\* lines 16-17: MEMORY_BANK is updated and the id returned
StoreReturn(r) ==
    /\ loc.frames[r].pc = "bank"
    /\ loc' = [loc EXCEPT !.frames[r] = IdleFrame, !.last_issues = loc.frames[r].issues]
    /\ result' = Append(result, [run |-> r, op |-> "store_issues",
                                 issues |-> loc.frames[r].issues,
                                 ret |-> <<loc.frames[r].report_id>>])
    /\ UNCHANGED <<args, pc, events, raised, wc, gitLog, cbp, host, hostLog, store>>

\* a run calls get_artifact or fetch_issue_batch with an id it was given, or
\* with one no call returned
StoreRead(r) ==
    /\ loc.frames[r].pc = "idle" /\ CallsBegun < MaxStoreCalls
    /\ \E id \in ReturnedIds \cup {"missing"} :
          \/ result' = Append(result, [run |-> r, op |-> "get_artifact", issues |-> <<id>>,
                                       ret |-> GetArtifact(store, id)])
          \/ result' = Append(result, [run |-> r, op |-> "fetch_issue_batch",
                                       issues |-> <<id>>,
                                       ret |-> FetchIssueBatch(store, id)])
    /\ UNCHANGED <<args, pc, events, raised, loc, wc, gitLog, cbp, host, hostLog, store>>

NextStore == \E r \in Runs : StoreBegin(r) \/ StorePut(r) \/ StoreReturn(r) \/ StoreRead(r)

SpecStore == InitStore /\ [][NextStore]_vars

----------------------------------------------------------------------------
(* agents/analysis_agent.py: analyze_repo_for_issues, and
   agents/notebook_agents.py: run_linter_and_store *)

MaxAnalyses == 3

\* what running "ruff check" can give: the program is missing, or it exits
\* with a status and an output that is or is not JSON
LinterRuns ==
    {[installed |-> FALSE, exit |-> 2, valid |-> FALSE, issues |-> <<>>]}
    \cup [installed : {TRUE}, exit : {0, 1}, valid : BOOLEAN, issues : RuffResults]

\* analysis_agent.py 8-20: run_ruff_on_path, with check=True; every exception
\* gives the empty list
RunRuffOnPath(run) ==
    IF run.installed /\ run.exit = 0 /\ run.valid THEN run.issues ELSE <<>>

\* analysis_agent.py 23-28: the store afterwards and the text returned
AnalyzeRepoForIssues(st, run) ==
    LET issues == RunRuffOnPath(run)
        report_id == Uuid4(st)
    IN  [store |-> StoreIssues(st, report_id, issues, StorePath),
         out |-> AnalysisText(report_id)]

\* notebook_agents.py 129-161: the store afterwards and the text returned
RunLinterAndStore(st, run) ==
    IF ~run.installed THEN [store |-> st, out |-> <<"Error: Ruff linter not installed.">>]
    ELSE IF ~run.valid THEN [store |-> st, out |-> <<"Error: Linter output not valid JSON.">>]
    ELSE IF run.issues = <<>> THEN [store |-> st, out |-> <<"No issues found.">>]
    ELSE [store |-> StoreIssues(st, Uuid4(st), run.issues, StorePath),
          out |-> <<"Issues stored. Reference ID: ", Uuid4(st)>>]

\* loc.notebook_store is the ARTIFACT_STORE of notebook_agents.py (line 33),
\* store the one of core/artifacts.py
InitAnalysis ==
    /\ args = NoArgs /\ pc = "analysis_calls" /\ events = <<>> /\ result = <<>>
    /\ raised = NoExc /\ wc = NoWc /\ gitLog = <<>> /\ cbp = IdleCbp
    /\ host = NoHost /\ hostLog = <<>> /\ store = <<>>
    /\ loc = [notebook_store |-> <<>>]

\* one call of analyze_repo_for_issues(local_path); result records the linter
\* run, the text returned and the ids of the reports the call created
AnalyzeCall ==
    /\ pc = "analysis_calls" /\ Len(result) < MaxAnalyses
    /\ \E run \in LinterRuns :
          LET r == AnalyzeRepoForIssues(store, run) IN
          /\ store' = r.store
          /\ result' = Append(result, [fn |-> "analyze_repo_for_issues", run |-> run,
                                       out |-> r.out,
                                       created |-> DOMAIN r.store \ DOMAIN store])
    /\ UNCHANGED <<args, pc, events, raised, loc, wc, gitLog, cbp, host, hostLog>>

\* one call of run_linter_and_store(local_path)
LinterCall ==
    /\ pc = "analysis_calls" /\ Len(result) < MaxAnalyses
    /\ \E run \in LinterRuns :
          LET r == RunLinterAndStore(loc.notebook_store, run) IN
          /\ loc' = [loc EXCEPT !.notebook_store = r.store]
          /\ result' = Append(result, [fn |-> "run_linter_and_store", run |-> run,
                                       out |-> r.out,
                                       created |-> DOMAIN r.store \ DOMAIN loc.notebook_store])
    /\ UNCHANGED <<args, pc, events, raised, wc, gitLog, cbp, host, hostLog, store>>

NextAnalysis == AnalyzeCall \/ LinterCall

SpecAnalysis == InitAnalysis /\ [][NextAnalysis]_vars

----------------------------------------------------------------------------
(* app.py: the pipeline on a background thread, the dashboard polling the two
   queues. events is everything put on event_q so far; loc holds the thread,
   the queues and what the dashboard took off them; pc is the position of the
   dashboard loop *)

MaxLogChunks == 2

\* the events a run of the pipeline hands to progress_cb, in order
PipelineEvents == <<Ev("clone", "start", "none"), Ev("clone", "done", "local_path"),
                    Ev("result", "result", "res")>>

\* lines 200-201, 256-274: the queues are empty and the thread was started
InitApp ==
    /\ args = NoArgs /\ pc = "test_alive" /\ events = <<>> /\ result = NoResult
    /\ raised = NoExc /\ wc = NoWc /\ gitLog = <<>> /\ cbp = IdleCbp
    /\ host = NoHost /\ hostLog = <<>> /\ store = <<>>
    /\ loc = [thread |-> "running", event_q |-> <<>>, log_q |-> <<>>,
              consumed |-> <<>>, printed |-> 0, log_text |-> 0]

\* t.is_alive()
IsAlive == loc.thread # "finished"

\* lines 81-82, progress_cb: event_queue.put((stage, info))
ThreadEmit ==
    /\ loc.thread = "running" /\ Len(events) < Len(PipelineEvents)
    /\ LET ev == PipelineEvents[Len(events) + 1] IN
       /\ events' = Append(events, ev)
       /\ loc' = [loc EXCEPT !.event_q = Append(@, ev)]
    /\ UNCHANGED <<args, pc, result, raised, wc, gitLog, cbp, host, hostLog, store>>

\* lines 84-93, QueueWriter.write: what the run prints goes to log_q
ThreadPrint ==
    /\ loc.thread = "running" /\ loc.printed < MaxLogChunks
    /\ loc' = [loc EXCEPT !.log_q = Append(@, "chunk"), !.printed = @ + 1]
    /\ UNCHANGED <<args, pc, events, result, raised, wc, gitLog, cbp, host, hostLog, store>>

\* lines 114-115: run_pipeline raised; log_queue.put("ERROR ...")
ThreadRaise ==
    /\ loc.thread = "running"
    /\ raised' = Exc("GitCommandError", "clone failed")
    /\ loc' = [loc EXCEPT !.thread = "failing", !.log_q = Append(@, "ERROR")]
    /\ UNCHANGED <<args, pc, events, result, wc, gitLog, cbp, host, hostLog, store>>

\* line 116: event_queue.put(("error", str(e))), and the thread ends
ThreadError ==
    /\ loc.thread = "failing"
    /\ LET ev == Ev("error", "error", raised.msg) IN
       /\ events' = Append(events, ev)
       /\ loc' = [loc EXCEPT !.thread = "finished", !.event_q = Append(@, ev)]
    /\ UNCHANGED <<args, pc, result, raised, wc, gitLog, cbp, host, hostLog, store>>

\* lines 97-113: run_pipeline returned, the thread ends
ThreadReturn ==
    /\ loc.thread = "running"
    /\ loc' = [loc EXCEPT !.thread = "finished"]
    /\ UNCHANGED <<args, pc, events, result, raised, wc, gitLog, cbp, host, hostLog, store>>

\* a loop test that looks at the thread only
DashTestAliveOnly ==
    /\ pc = "test_alive"
    /\ pc' = IF IsAlive THEN "drain_events" ELSE "exited"
    /\ UNCHANGED <<args, events, result, raised, loc, wc, gitLog, cbp, host, hostLog, store>>

\* line 277, while t.is_alive() or ...: the first operand
DashTestAlive ==
    /\ pc = "test_alive"
    /\ pc' = IF IsAlive THEN "drain_events" ELSE "test_log"
    /\ UNCHANGED <<args, events, result, raised, loc, wc, gitLog, cbp, host, hostLog, store>>

\* line 277, ... or not log_q.empty() or ...: read after the first was false
DashTestLog ==
    /\ pc = "test_log"
    /\ pc' = IF loc.log_q # <<>> THEN "drain_events" ELSE "test_event"
    /\ UNCHANGED <<args, events, result, raised, loc, wc, gitLog, cbp, host, hostLog, store>>

\* line 277, ... or not event_q.empty(): read last; the loop ends when the
\* three were false
DashTestEvent ==
    /\ pc = "test_event"
    /\ pc' = IF loc.event_q # <<>> THEN "drain_events" ELSE "exited"
    /\ UNCHANGED <<args, events, result, raised, loc, wc, gitLog, cbp, host, hostLog, store>>

\* lines 280-407: while not event_q.empty(): get_nowait() and the handling of
\* the stage, which may raise; line 477 swallows the exception and the loop
\* goes to sleep
DashDrainEvents ==
    /\ pc = "drain_events"
    /\ IF loc.event_q = <<>>
       THEN pc' = "render" /\ loc' = loc
       ELSE /\ loc' = [loc EXCEPT !.event_q = Tail(@), !.consumed = Append(@, Head(loc.event_q))]
            /\ \E handlerRaised \in BOOLEAN :
                  pc' = IF handlerRaised THEN "sleep" ELSE "drain_events"
    /\ UNCHANGED <<args, events, result, raised, wc, gitLog, cbp, host, hostLog, store>>

\* lines 409-465: the stage boxes, charts and the summary; what is not guarded
\* there may raise, and line 477 swallows it
DashRender ==
    /\ pc = "render"
    /\ \E renderRaised \in BOOLEAN : pc' = IF renderRaised THEN "sleep" ELSE "drain_logs"
    /\ UNCHANGED <<args, events, result, raised, loc, wc, gitLog, cbp, host, hostLog, store>>

\* lines 467-475: while not log_q.empty(): get_nowait(), appended to log_text
DashDrainLogs ==
    /\ pc = "drain_logs"
    /\ IF loc.log_q = <<>>
       THEN pc' = "sleep" /\ loc' = loc
       ELSE /\ loc' = [loc EXCEPT !.log_q = Tail(@), !.log_text = @ + 1]
            /\ pc' = pc
    /\ UNCHANGED <<args, events, result, raised, wc, gitLog, cbp, host, hostLog, store>>

\* line 480: time.sleep(0.2), then the loop test again
DashSleep ==
    /\ pc = "sleep"
    /\ pc' = "test_alive"
    /\ UNCHANGED <<args, events, result, raised, loc, wc, gitLog, cbp, host, hostLog, store>>

ThreadStep == ThreadEmit \/ ThreadPrint \/ ThreadRaise \/ ThreadError \/ ThreadReturn

DashStep ==
    \/ DashTestAlive
    \/ DashTestLog
    \/ DashTestEvent
    \/ DashDrainEvents
    \/ DashRender
    \/ DashDrainLogs
    \/ DashSleep

NextApp == ThreadStep \/ DashStep

\* the script thread keeps running; the pipeline thread may take any time, and
\* once in its exception handler it runs on
SpecApp == InitApp /\ [][NextApp]_vars /\ WF_vars(DashStep) /\ WF_vars(ThreadError)

----------------------------------------------------------------------------
(* Properties *)

\* a recorded origin without the credentials the token retry embeds in it
WithoutToken(url) == SelectSeq(url, LAMBDA c : c # TokenUserinfo)

CommitOrPush == {"commit", "commit --allow-empty", "push"}

\* the commits and pushes carried out on a working copy of another repository
ForeignWrites ==
    {i \in 1..Len(gitLog) :
        /\ gitLog[i].op \in CommitOrPush /\ gitLog[i].ok
        /\ Normalize(WithoutToken(gitLog[i].url)) # Normalize(args.repo_url)}

\* C1: in every run_pipeline run no commit or push is performed on a working
\* copy whose recorded origin, normalized, differs from the normalized repo_url
\* the caller supplied, also when the origin could not be read
C1_OriginSafety == ForeignWrites = {}

\* C2: create_branch_and_push called with an expected_origin that differs from
\* the actual origin (both normalized) raises before any mutation: no branch is
\* created or checked out, nothing is stashed, staged or committed, no push is
\* attempted
C2_MismatchRaisesFirst ==
    (/\ cbp.pc # "check"
     /\ cbp.expected # NoUrl
     /\ Normalize(WithoutToken(wc.origin)) # Normalize(cbp.expected))
    => /\ cbp.pc = "raised"
       /\ cbp.exc = Exc("RuntimeError", "safety check failed")
       /\ gitLog = <<>>
       /\ wc.head = "main" /\ wc.stash = <<>> /\ wc.index = {} /\ wc.commits = <<>>
       /\ \A b \in host.branches : RemoteHolds(host, wc.origin, cbp.new_branch) /\ b[2] = cbp.new_branch

C2_Refused ==
    /\ cbp.pc = "raised" /\ cbp.exc.msg = "safety check failed"
    /\ cbp.expected # NoUrl /\ wc.origin # cbp.expected
    /\ gitLog = <<>>

Returned == pc = "returned"

\* C3: every fatal outcome that stops before publication (repo_mismatch,
\* no_analysis_report) returns status=failed after emitting an :error event for
\* each downstream stage that will not run: publish, pr and prreview
C3_FatalOutcomesCloseStages ==
    (/\ Returned /\ result.status = "failed"
     /\ result.reason \in {"repo_mismatch", "no_analysis_report"})
    => \A s \in {"publish", "pr", "prreview"} : Has(events, s, "error")

\* the commands create_branch_and_push issues to get the branch to the remote
PushSteps == {i \in 1..Len(gitLog) : gitLog[i].op \in {"push", "pull", "set_url authed"}}

\* create_branch_and_push gave up because its last push attempt was turned down
\* by the remote with conflict-indicating text
PushFailedWithConflict ==
    /\ cbp.pc = "raised"
    /\ PushSteps # {}
    /\ LET last == gitLog[CHOOSE i \in PushSteps : \A j \in PushSteps : j <= i]
       IN  last.op = "push" /\ ~last.ok /\ last.text = "conflict"

\* C4: a run whose push of the new branch fails with conflict-indicating text,
\* with or without a token, returns status=failed and reason=merge_conflict
\* after emitting pr:error and prreview:error
C4_ConflictPath ==
    (Returned /\ PushFailedWithConflict)
    => /\ result.status = "failed" /\ result.reason = "merge_conflict"
       /\ Has(events, "pr", "error") /\ Has(events, "prreview", "error")

HostCalls(ops) == {i \in 1..Len(hostLog) : hostLog[i].op \in ops}

\* C5: when create_branch_and_push raises anything but MergeConflictError,
\* run_pipeline emits push:error, publish:error, pr:error and prreview:error,
\* returns status=failed with reason=push_error, and calls neither
\* create_pull_request nor post_pr_comment
C5_PushErrorShortCircuit ==
    (Returned /\ cbp.pc = "raised" /\ cbp.exc.type # "MergeConflictError")
    => /\ \A s \in {"push", "publish", "pr", "prreview"} : Has(events, s, "error")
       /\ result.status = "failed" /\ result.reason = "push_error"
       /\ HostCalls({"list_prs", "create_pr", "post_comment"}) = {}

C5_PushErrorReturned ==
    /\ Returned /\ cbp.pc = "raised" /\ cbp.exc.type = "RuntimeError"
    /\ result.status = "failed" /\ result.reason = "push_error"

\* the events from publish:error on
AfterPublishError ==
    LET i == CHOOSE k \in 1..Len(events) :
                 events[k].stage = "publish" /\ events[k].kind = "error"
    IN  SubSeq(events, i, Len(events))

\* C6: on MergeConflictError run_pipeline tries create_issue exactly once; the
\* result (failed, merge_conflict, the conflict as detail) and the publish:error,
\* pr:error and prreview:error events are the same whether create_issue succeeds
\* or raises; cloner:notify is emitted only when create_issue succeeded
C6_ConflictNotification ==
    (Returned /\ cbp.pc = "raised" /\ cbp.exc.type = "MergeConflictError")
    => /\ Cardinality(HostCalls({"create_issue"})) = 1
       /\ result = [status |-> "failed", reason |-> "merge_conflict",
                     detail |-> "Merge conflicts detected while pulling remote."]
       /\ Has(events, "publish", "error")
       /\ AfterPublishError =
             <<Ev("publish", "error", "Merge conflicts detected while pulling remote."),
               Ev("pr", "error", "Cannot create PR due to merge conflict"),
               Ev("prreview", "error", "Cannot review PR due to merge conflict")>>
       /\ Has(events, "cloner", "notify")
             <=> \A i \in HostCalls({"create_issue"}) : hostLog[i].ok

C6_IssueFailed ==
    /\ Returned /\ cbp.pc = "raised" /\ cbp.exc.type = "MergeConflictError"
    /\ \E i \in HostCalls({"create_issue"}) : ~hostLog[i].ok
    /\ result.reason = "merge_conflict"

\* app.py stage_statuses: the stages the dashboard declares
DeclaredStages ==
    {"clone", "scan", "lint", "analyze", "security", "semantic", "confidence",
     "generate", "fix", "apply", "commit", "push", "publish", "pr", "prreview", "ci"}

AllFlagsOff ==
    /\ ~args.security_lint /\ ~args.semantic_refactor /\ ~args.confidence_scoring
    /\ ~args.ci_integration /\ ~args.pr_review_comments

\* the events that close a stage: :done, :error, and pr:created
Closing(s) ==
    {i \in 1..Len(events) :
        events[i].stage = s /\ events[i].kind \in {"done", "error", "created"}}

Starts(s) == {i \in 1..Len(events) : events[i].stage = s /\ events[i].kind = "start"}

Terminals(s) ==
    {i \in 1..Len(events) : events[i].stage = s /\ events[i].kind \in {"done", "error"}}

\* C7: a full successful run with every optional flag off has, when it returns,
\* emitted a terminal event (:done, :error or an explicit not-requested event)
\* for every declared stage, security, semantic, confidence, ci and prreview
\* included
C7_AllStagesClosed ==
    (Returned /\ result.status = "ok" /\ AllFlagsOff /\ args.pr_requirement = "none")
    => \A s \in DeclaredStages : Closing(s) # {}

EmittedStages == {events[i].stage : i \in 1..Len(events)}

\* C8: on every path each stage that emits :start later emits exactly one
\* terminal event (:done or :error) before the run returns, and each terminal
\* event of a stage is preceded by a :start of that stage
C8_StartAndTerminalPaired ==
    Returned
    => \A s \in EmittedStages :
          /\ \A i \in Starts(s) :
                Cardinality({t \in Terminals(s) : t > i}) = 1
          /\ \A t \in Terminals(s) : \E i \in Starts(s) : i < t

\* section 4.5: the position of a stage in the declared order
StageRank ==
    [clone |-> 1, requirement |-> 2, scan |-> 2, lint |-> 3, analyze |-> 4,
     security |-> 5, semantic |-> 6, generate |-> 7, fix |-> 7, confidence |-> 8,
     ci |-> 9, commit |-> 10, push |-> 11, publish |-> 12, prreview |-> 13]

Ranked == {i \in 1..Len(events) : events[i].stage \in DOMAIN StageRank}

\* C9: the events respect the declared stage order: no event of a stage is
\* emitted before the first event of a stage that precedes it in the order
C9_StageOrder ==
    \A i \in Ranked, j \in Ranked :
        (i < j /\ StageRank[events[j].stage] < StageRank[events[i].stage])
        => \E k \in 1..(i - 1) : events[k].stage = events[j].stage

\* a push of the new branch went through
PushSucceeded == \E i \in 1..Len(gitLog) : gitLog[i].op = "push" /\ gitLog[i].ok

\* the calls of create_pull_request: each starts with a listing, and the only
\* other listing follows a rejected create request
PrCalls ==
    {i \in 1..Len(hostLog) :
        hostLog[i].op = "list_prs" /\ (i = 1 \/ hostLog[i - 1].op # "create_pr")}

PrRaised ==
    /\ \E i \in 1..Len(hostLog) : hostLog[i].op = "create_pr" /\ ~hostLog[i].ok
    /\ PrsOf(host, Normalize(args.repo_url), NewBranch) = {}

\* C14: when create_pull_request raises after a successful push, run_pipeline
\* emits pr:error, still emits publish:done, and returns status=ok with the
\* pushed branch and no pr_url; the run is not aborted
C14_PrFailureNotFatal ==
    (Returned /\ PrRaised)
    => /\ Has(events, "pr", "error") /\ ~Has(events, "pr", "created")
       /\ Has(events, "publish", "done")
       /\ result.status = "ok" /\ result.branch = NewBranch /\ result.pr_url = NoPr
       /\ Has(events, "result", "result")

C14_ReturnedOkWithoutPr ==
    /\ Returned /\ PrRaised /\ PushSucceeded
    /\ result.status = "ok" /\ result.pr_url = NoPr

Comments == {i \in 1..Len(hostLog) : hostLog[i].op = "post_comment"}

\* C15: post_pr_comment is called only if pr_review_comments is set and a PR URL
\* was obtained; with the flag set and no PR, prreview:error is emitted and no
\* comment is posted; with the flag not set, no comment is posted and
\* prreview:done is emitted
C15_CommentOnlyOnPr ==
    /\ \A i \in Comments :
          /\ args.pr_review_comments
          /\ loc.pr_url # NoPr /\ hostLog[i].arg = loc.pr_url
          /\ loc.pr_url = FirstListed(host, Normalize(args.repo_url), NewBranch)
    /\ (Returned /\ result.status = "ok" /\ args.pr_review_comments /\ loc.pr_url = NoPr)
          => Comments = {} /\ Has(events, "prreview", "error")
                           /\ ~Has(events, "prreview", "done")
    /\ (Returned /\ result.status = "ok" /\ ~args.pr_review_comments)
          => Comments = {} /\ Has(events, "prreview", "done")
                           /\ ~Has(events, "prreview", "error")

C15_ReviewWithoutPr ==
    /\ Returned /\ result.status = "ok" /\ args.pr_review_comments
    /\ loc.pr_url = NoPr /\ Comments = {}
    /\ Has(events, "prreview", "error")

\* the calls of create_pull_request that returned a URL
PrReturned == {k \in 1..Len(result) : result[k].exc = NoExc}

\* C16: create_pull_request is idempotent: successive calls for the same
\* repository and head branch return the same PR URL, the host then holds
\* exactly one pull request of that head branch, and no create request is sent
\* when a pull request of the head branch already exists, in any state
C16_PrIdempotent ==
    /\ \A j \in PrReturned, k \in PrReturned : result[j].ret = result[k].ret
    /\ PrReturned # {} => Cardinality(PrsOf(host, args.clean, args.head)) = 1
    /\ \A k \in 1..Len(result) :
          result[k].existed
          => \A i \in 1..Len(result[k].calls) : result[k].calls[i].op # "create_pr"

\* the call sent a create request
CreateSent(c) == \E i \in 1..Len(c.calls) : c.calls[i].op = "create_pr"

\* C17: a caller whose create request is rejected as already existing, after
\* its pre-check found nothing, re-queries and returns the URL of the existing
\* pull request instead of raising; a rejection of another class is propagated
C17_RaceRequeried ==
    \A k \in 1..Len(result) :
        LET c == result[k] IN
        /\ (CreateSent(c) /\ c.answer = "422 raced" /\ c.relistOk)
              => /\ c.exc = NoExc
                 /\ \E n \in PrsOf(host, args.clean, args.head) :
                       c.ret = HtmlUrl(args.clean, n)
        /\ (CreateSent(c) /\ c.answer = "403")
              => c.exc = Exc("HTTPError", "403") /\ c.ret = NoPr

C17_RacedAndReturned ==
    \E k \in 1..Len(result) :
        /\ CreateSent(result[k]) /\ result[k].answer = "422 raced" /\ ~result[k].existed
        /\ result[k].calls[1].ok
        /\ result[k].exc = NoExc /\ result[k].ret # NoPr

\* C12: a failure inside an optional stage (security scan, CI file write, PR
\* review comment) produces the :error event of that stage and never its :done
\* event
C12_OptionalFailuresReported ==
    \A s \in {"security", "ci", "prreview"} :
        (\/ s = "security" /\ loc.bandit_report_id = BanditFailed
         \/ s = "ci" /\ \E i \in 1..Len(gitLog) :
                            gitLog[i].op = "write_file" /\ ~gitLog[i].ok
         \/ s = "prreview" /\ \E i \in 1..Len(hostLog) :
                                  hostLog[i].op = "post_comment" /\ ~hostLog[i].ok)
        => Has(events, s, "error") /\ ~Has(events, s, "done")

C10_NeverRaises == pc # "raised" /\ raised = NoExc

\* the four classes of host failure a comment request can meet
FailureClass(status) == IF status \in {"403", "404", "401"} THEN status ELSE "other"

\* C18: post_pr_comment raises errors of four pairwise distinct kinds for a
\* 403, a 404, a 401 and any other failure status, so two failures of different
\* classes are never reported by errors of the same kind
C18_DistinctErrorKinds ==
    \A i \in 1..Len(result), j \in 1..Len(result) :
        LET a == result[i]
            b == result[j]
        IN  (a.exc # NoExc /\ b.exc # NoExc /\ FailureClass(a.status) # FailureClass(b.status))
                => a.exc.type # b.exc.type

\* the iterations in which the generator returned text that is not blank
NonBlank(resp) == \E i \in 1..Len(resp) : resp[i] \notin Whitespace
GotResponse == {k \in 1..Len(loc.visited) :
                   loc.visited[k].call.gen = "response" /\ NonBlank(loc.visited[k].call.resp)}

\* C19: fix_issues_with_llm never raises and never stops early: whatever the
\* per-issue outcomes, every issue of the report is visited once in stored
\* order, and the final fixed count is the number of issues that got a
\* non-empty response, which is at most the issue count
C19_FixVisitsEveryIssue ==
    /\ raised = NoExc
    /\ (pc = "fix_returned" /\ args.report_id \in DOMAIN store) =>
          LET issues == store[args.report_id].issues IN
          /\ Len(loc.visited) = Len(issues)
          /\ \A k \in 1..Len(issues) :
                loc.visited[k].idx = k /\ loc.visited[k].issue = issues[k]
          /\ loc.fixed_count = Cardinality(GotResponse)
          /\ loc.fixed_count <= Len(issues)

\* the second issue's file is absent, the third issue's call timed out, and
\* the first issue was fixed
C19_MixedOutcomes ==
    /\ pc = "fix_returned" /\ Len(loc.visited) = 3
    /\ loc.visited[1].msg = "Updated"
    /\ loc.visited[2].msg = "File not found"
    /\ loc.visited[3].msg = "LLM timeout"
    /\ loc.fixed_count = 1

\* C20: a file is overwritten only in the iteration of an issue on that file
\* whose generator call returned a non-empty response; an iteration that is
\* skipped, times out, errors or gets an empty response changes no file
C20_WriteOnlyAfterResponse ==
    \A k \in 1..Len(loc.visited) :
        LET v == loc.visited[k] IN
        /\ v.changed \subseteq {Filename(v.issue)}
        /\ v.changed # {} => k \in GotResponse

\* a timed-out issue on a file left that file as an earlier issue's fix wrote it
C20_TimeoutLeftFile ==
    \E j \in 1..Len(loc.visited), k \in 1..Len(loc.visited) :
        /\ j < k /\ Len(loc.visited) = k
        /\ loc.visited[j].changed = {"a.py"} /\ loc.visited[j].msg = "Updated"
        /\ Filename(loc.visited[k].issue) = "a.py"
        /\ loc.visited[k].msg \in {"LLM timeout", "LLM error", "LLM returned empty response"}
        /\ loc.visited[k].changed = {}
        /\ wc.files["a.py"] = loc.visited[j].call.resp

\* C21: the lint-fix batch always terminates, even if the generator never
\* answers a call, because each call is abandoned when its timeout expires;
\* and at most one generator call is in flight at any time
C21_FixTerminates ==
    /\ <>(pc = "fix_returned")
    /\ [](loc.in_flight <= 1)

\* a report of three issues returned although the generator answered no call
C21_AllCallsTimedOut ==
    /\ pc = "fix_returned" /\ Len(loc.visited) = MaxReportIssues
    /\ \A k \in 1..Len(loc.visited) : loc.visited[k].msg = "LLM timeout"
    /\ loc.in_flight = 0

\* the store_issues calls that returned
Stored == {i \in 1..Len(result) : result[i].op = "store_issues"}

\* C22: every id a store_issues call returned maps to a report whose issues are
\* the list passed to that call and whose count is its length, also for an
\* empty list; store_issues never fails
C22_StoredReportMatches ==
    /\ raised = NoExc
    /\ \A i \in Stored :
          LET id == result[i].ret[1] IN
          /\ GetArtifact(store, id) # <<>>
          /\ GetArtifact(store, id)[1].issues = result[i].issues
          /\ GetArtifact(store, id)[1].count = Len(result[i].issues)

\* an empty list and a list of one issue were stored
C22_EmptyAndNonEmptyStored ==
    \E i \in Stored, j \in Stored :
        /\ result[i].issues = <<>> /\ result[j].issues # <<>>
        /\ store[result[i].ret[1]].count = 0 /\ store[result[j].ret[1]].count = 1

\* C23: reports are write-once: a step that changes the store adds exactly one
\* entry under an id not present before and leaves every stored report as it
\* was; get_artifact and fetch_issue_batch change no report; none is removed
C23_WriteOnce ==
    [][/\ \A id \in DOMAIN store : id \in DOMAIN store' /\ store'[id] = store[id]
       /\ Cardinality(DOMAIN store') <= Cardinality(DOMAIN store) + 1
       /\ (Len(result') > Len(result) /\ result'[Len(result')].op # "store_issues")
             => store' = store]_vars

\* a second report was entered and the first one read afterwards
C23_ReadAfterSecondStore ==
    /\ Cardinality(DOMAIN store) = 2
    /\ Len(result) = 3 /\ result[3].op = "get_artifact" /\ result[3].ret # <<>>

\* C25: under any interleaving of the calls of several runs no report is lost
\* or mixed up: the ids returned are pairwise distinct, and get_artifact of a
\* returned id gives the issues and count passed to the call that returned it
C25_ConcurrentStoresKept ==
    /\ \A i \in Stored, j \in Stored : i # j => result[i].ret # result[j].ret
    /\ \A i \in Stored, g \in 1..Len(result) :
          (result[g].op = "get_artifact" /\ result[g].issues = result[i].ret)
             => result[g].ret = <<[issues |-> result[i].issues,
                                  count |-> Len(result[i].issues),
                                  repo_path |-> StorePath]>>

\* two runs were inside store_issues at once, and both reports are there
C25_OverlappingStores ==
    /\ \A r \in Runs : loc.frames[r].pc = "bank"
    /\ Cardinality(DOMAIN store) = 2
    /\ loc.frames["run-1"].issues # loc.frames["run-2"].issues

\* C24: every analysis invocation creates exactly one report, also when the
\* analyzer finds no issue or is unavailable, and the text it returns carries
\* the id of that report
C24_OneReportPerAnalysis ==
    \A i \in 1..Len(result) :
        /\ Cardinality(result[i].created) = 1
        /\ ReSearch(result[i].out) \in result[i].created

\* the recorded origin embeds credentials
HoldsToken(url) == \E i \in 1..Len(url) : url[i] = TokenUserinfo

\* C26: credentials never persist in the recorded origin: at every return or
\* raise of create_branch_and_push the origin URL contains no token, the URL
\* held before the authenticated retry being restored whether the retry
\* succeeds or fails
C26_NoTokenInOrigin ==
    cbp.pc \in {"returned", "raised"} => ~HoldsToken(wc.origin)

\* the call found nothing to commit: the working copy holds no change and no
\* commit of the call carries a file
NothingToCommit ==
    /\ wc.dirty = {} /\ wc.untracked = {} /\ wc.index = {} /\ wc.stash = <<>>
    /\ \A i \in 1..Len(wc.commits) : wc.commits[i].files = {}

\* git carried out every command it was given, but for a commit that was
\* refused and made good by the commit tried after it
GitWorked ==
    \A i \in 1..Len(gitLog) :
        gitLog[i].ok \/ /\ gitLog[i].op = "commit"
                        /\ i < Len(gitLog) /\ gitLog[i + 1].ok
                        /\ gitLog[i + 1].op \in {"commit", "commit --allow-empty"}

\* C27: given a working copy with zero uncommitted changes and a remote that
\* accepts the push, create_branch_and_push still creates a commit (an empty
\* one) on the new branch, pushes the branch and returns its name
C27_EmptyCommitPushed ==
    (/\ cbp.pc \in {"returned", "raised"} /\ NothingToCommit /\ GitWorked
     /\ cbp.exc # Exc("RuntimeError", "safety check failed"))
        => /\ cbp.pc = "returned" /\ cbp.ret = cbp.new_branch
           /\ wc.commits # <<>>
           /\ wc.commits[Len(wc.commits)].branch = cbp.new_branch
           /\ wc.commits[Len(wc.commits)].files = {}
           /\ <<Normalize(wc.origin), cbp.new_branch>> \in host.branches

C27_ReturnedAfterEmptyCommit ==
    /\ cbp.pc = "returned" /\ NothingToCommit /\ GitWorked
    /\ \E i \in 1..Len(gitLog) : gitLog[i].op = "commit --allow-empty" /\ gitLog[i].ok
    /\ Len(wc.commits) = 1

PushAttempts == {i \in 1..Len(gitLog) : gitLog[i].op = "push"}
Pulls == {i \in 1..Len(gitLog) : gitLog[i].op = "pull"}
TokenRewrites == {i \in 1..Len(gitLog) : gitLog[i].op = "set_url authed"}

\* C28: create_branch_and_push makes at most two push attempts and at most one
\* pull: a second attempt follows a failed first one, through the token retry
\* when a token is present and the remote is HTTP(S) and through pull-then-push
\* otherwise, never through both, and there is no third attempt
C28_AtMostTwoPushes ==
    /\ Cardinality(PushAttempts) <= 2 /\ Cardinality(Pulls) <= 1
    /\ \A p \in Pulls \cup TokenRewrites :
          \E i \in PushAttempts : i < p /\ ~gitLog[i].ok
    /\ \A i \in PushAttempts, j \in PushAttempts :
          i < j =>
            /\ ~gitLog[i].ok
            /\ IF cbp.token /\ StartsWith(gitLog[i].url, Http)
               THEN Pulls = {} /\ \E k \in TokenRewrites : i < k /\ k < j /\ gitLog[k].ok
               ELSE TokenRewrites = {} /\ \E k \in Pulls : i < k /\ k < j /\ gitLog[k].ok
    /\ Pulls = {} \/ TokenRewrites = {}

\* a second push was made after a pull, and it failed as well
C28_SecondPushFailed ==
    /\ cbp.pc = "raised" /\ Cardinality(PushAttempts) = 2 /\ Cardinality(Pulls) = 1
    /\ \A i \in PushAttempts : ~gitLog[i].ok

PushedOk == {i \in PushAttempts : gitLog[i].ok}

\* C29: create_branch_and_push returns the branch name only when one of its
\* push attempts succeeded, and raises on every path where none succeeded
C29_ReturnsOnlyPushed ==
    /\ cbp.pc = "returned" =>
          /\ PushedOk # {} /\ cbp.ret = cbp.new_branch /\ cbp.exc = NoExc
          /\ \E b \in host.branches : b[2] = cbp.new_branch
    /\ (cbp.pc \in {"returned", "raised"} /\ PushedOk = {}) =>
          cbp.pc = "raised" /\ cbp.exc # NoExc /\ cbp.ret = "none"

\* clone_repo could not check out the requested branch
CloneCheckoutFailed ==
    \E i \in 1..(Len(gitLog) - 1) :
        /\ gitLog[i].op = "checkout" /\ ~gitLog[i].ok
        /\ gitLog[i + 1].op = "set_url clean"

\* C30: when the requested base branch can be checked out neither from a local
\* nor from a remote branch, the caller of clone receives a branch-not-found
\* error, so the run does not go on silently on another branch: it ends with
\* an error and reports no clone:done
C30_MissingBranchReported ==
    CloneCheckoutFailed =>
        /\ pc \in {"raised", "returned"}
        /\ raised # NoExc \/ result.status = "failed"
        /\ ~Has(events, "clone", "done")

\* C31: whenever create_branch_and_push fails to create a commit, it raises and
\* attempts no push: a push is attempted only after a commit was created on
\* the new branch
C31_NoPushWithoutCommit ==
    PushAttempts # {} =>
        \E k \in 1..Len(wc.commits) : wc.commits[k].branch = cbp.new_branch

StashPushes == {i \in 1..Len(gitLog) : gitLog[i].op = "stash push"}
StashPops == {i \in 1..Len(gitLog) : gitLog[i].op = "stash pop"}

\* C32: a stash is created only when the branch checkout failed because
\* untracked files would be overwritten, the checkout is retried once after
\* stashing, and a stash pop is attempted exactly once if and only if a stash
\* was created and the push succeeded; a failing pop does not change the
\* returned branch name
C32_StashOnlyForUntracked ==
    /\ \A i \in StashPushes :
          /\ i > 1 /\ gitLog[i - 1].op = "checkout" /\ ~gitLog[i - 1].ok
          /\ gitLog[i - 1].text = "untracked files would be overwritten"
          /\ gitLog[i].ok =>
                /\ i < Len(gitLog) /\ gitLog[i + 1].op = "checkout"
                /\ Cardinality({j \in 1..Len(gitLog) : j > i /\ gitLog[j].op = "checkout"}) = 1
    /\ Cardinality(StashPops) <= 1
    /\ cbp.pc \in {"returned", "raised"} =>
          (StashPops # {} <=> (cbp.stash_created /\ PushedOk # {}))
    /\ (cbp.pc = "returned" /\ StashPops # {}) => cbp.ret = cbp.new_branch

\* the files the fix/generation stage of this run can have touched: the
\* files it generated, or in lint-fix mode the files of the report's issues
TouchedByFix ==
    IF args.pr_requirement # "none" THEN loc.generated_files
    ELSE IF loc.report_id \in DOMAIN store
    THEN {store[loc.report_id].issues[i].file : i \in 1..store[loc.report_id].count}
    ELSE {}

\* C33: create_branch_and_push stages exactly the files of files_to_add when
\* a list is given and every change only when none is given, and run_pipeline
\* passes the files the fix/generation stage touched: in both modes a commit
\* that holds a touched file holds nothing but touched files
C33_OnlyTouchedStaged ==
    \A k \in 1..Len(wc.commits) :
        /\ cbp.files # {} => wc.commits[k].files \subseteq cbp.files
        /\ wc.commits[k].files \cap TouchedByFix # {} =>
              wc.commits[k].files \subseteq TouchedByFix

\* a URL without its trailing slashes and without a ".git" at its end
TrailingOnly(url) ==
    LET s == RStrip(url, "/")
    IN  IF EndsWith(s, DotGit) THEN SubSeq(s, 1, Len(s) - Len(DotGit)) ELSE s

\* C34: URL normalization removes only a trailing slash and a trailing .git
\* suffix: the origin check of create_branch_and_push lets the call pass if
\* and only if the origin and the expected URL differ at most by these
C34_NormalizeTrailingOnly ==
    (cbp.pc # "check" /\ cbp.expected # NoUrl) =>
        (cbp.exc # Exc("RuntimeError", "safety check failed")
            <=> TrailingOnly(WithoutToken(wc.origin)) = TrailingOnly(cbp.expected))

\* the calls of clone_repo that ended, each with the origin the working copy
\* at local_path had when the call opened or cloned it
CloneCalls == {i \in 1..Len(gitLog) : gitLog[i].op = "set_url clean"}

\* C35: a working copy is bound to one repository: the working copy
\* clone_repo(repo_url) returns was cloned from repo_url, and the origin
\* clone_repo leaves recorded is that of the repository the copy came from
C35_WorkingCopyBound ==
    \A i \in CloneCalls :
        /\ Normalize(gitLog[i].url) = Normalize(args.repo_url)
        /\ wc.exists => Normalize(WithoutToken(wc.origin)) = Normalize(gitLog[i].url)

\* C36: the pushed head branch is created from the HEAD of the requested
\* base branch: when create_branch_and_push is about to create the new branch
\* from the current HEAD, also in a reused working copy and also when
\* base_branch is empty or could not be checked out, HEAD is not the fix branch
\* of an earlier run
C36_BranchFromBase ==
    (cbp.pc = "checkout" /\ cbp.new_branch \notin wc.heads) => wc.head # OldBranch

\* C37: whenever ci_integration is enabled and the run emits ci:done, the
\* workflow file written by the ci stage is part of the commit pushed on the
\* head branch, in lint-fix mode and requirement mode alike
C37_WorkflowCommitted ==
    (args.ci_integration /\ Has(events, "ci", "done") /\ Has(events, "push", "done")) =>
        \E k \in 1..Len(wc.commits) :
            /\ wc.commits[k].branch = cbp.new_branch
            /\ WorkflowFile \in wc.commits[k].files

\* the ids handed to the fix stage
FixStartIds == {events[i].info : i \in {j \in 1..Len(events) :
                   events[j].stage = "fix" /\ events[j].kind = "start"}}

\* C38: the report id run_pipeline extracts from the analysis output and
\* hands to the fix, confidence and event stages is the id the store call of
\* this run returned, in both modes and for every requirement text
C38_ExtractedIdIsStored ==
    \A id \in FixStartIds \cup (IF pc \in {"fix", "confidence", "ci"}
                                THEN {loc.report_id} ELSE {}) :
        id \in DOMAIN store

\* C39: every run that returns emits, as its last event, a result event
\* carrying the returned result, for the failed results (no_analysis_report,
\* repo_mismatch, merge_conflict, push_error) as well as for status ok
C39_ResultEventLast ==
    Returned =>
        /\ events # <<>>
        /\ events[Len(events)].stage = "result"
        /\ events[Len(events)].kind = "result"

QueuesEmpty == loc.event_q = <<>> /\ loc.log_q = <<>>

\* C40: every event the progress callback put on the queue is consumed by the
\* dashboard loop, in emission order, before the loop exits, and the loop
\* exits once the thread has finished and both queues are empty, under every
\* interleaving of the thread and the loop
C40_EveryEventConsumed ==
    /\ [](StartsWith(events, loc.consumed))
    /\ [](pc = "exited" => (loc.consumed = events /\ ~IsAlive /\ QueuesEmpty))
    /\ ((~IsAlive /\ QueuesEmpty) ~> pc = "exited")

C40_ExitedAfterLateEvents ==
    /\ pc = "exited"
    /\ raised # NoExc
    /\ Len(loc.consumed) = Len(PipelineEvents) + 1
    /\ loc.log_text = MaxLogChunks + 1

====
